---- MODULE Spec2Model ----
(***************************************************************************)
(* A model of nzb-connect's download and delivery pipeline:                *)
(*   - internal/downloader/nntp.go   ConnectionPool, PoolManager           *)
(*   - internal/downloader/engine.go Engine (processLoop, processDownload, *)
(*                                   downloadFile, CancelDownload)         *)
(*   - internal/queue/manager.go     the queue store (status, paused flag) *)
(*   - internal/vpn                  Monitor, Manager; cmd/.../main.go     *)
(* Goroutines are processes with a program counter; every mutex-protected  *)
(* section and every channel operation is one atomic step.                 *)
(***************************************************************************)
EXTENDS Integers, Sequences, FiniteSets, TLC

\* ---------------------------------------------------------------- bounds
\* Goroutines that run PoolManager.FetchSegment concurrently (the engine's
\* per-file segment workers; engine.go sets 8, the model scales it down).
NumWorkers == 2
\* Calls of UpdateServers / SetVPNInterface / CloseAll over the whole run.
MaxReconf == 2
\* Jobs in the downloads table.
NumJobs == 1
\* CancelDownload calls over the whole run.
MaxCancels == 1
\* Attempts of the VPN reconnect loop (vpn manager: maxAttempts = 10, the
\* model scales it down).
MaxReconnects == 2

\* ------------------------------------------------------ program constants
\* nntp.go: for attempt := 0; attempt < 3; attempt++
MaxAttempts == 3

Workers == 1..NumWorkers
Jobs == 1..NumJobs
Names == {"A", "B"}
\* Goroutines that run the VPN callbacks: func main (the monitor's initial
\* check), the monitor's ticker goroutine, the reconnect loop.
Threads == {"main", "monitor", "reconnect"}
\* "" is the unbound dialer policy of NewPoolManager("").
Ifaces == {"", "wg0"}

\* config.ServerConfig, reduced to the fields the pool manager reads.
Srv(n, e, c) == [Name |-> n, Enabled |-> e, Connections |-> c]
\* Server lists handed to UpdateServers (cfg.GetServers()).
ServerLists ==
    { <<Srv("A", TRUE, 1), Srv("B", TRUE, 60)>>,
      <<Srv("A", TRUE, 0), Srv("B", FALSE, 2)>> }

VARIABLES
    pmIface,    \* PoolManager.vpnInterface
    pmPools,    \* PoolManager.pools: server name -> pool id, 0 = no entry
    pools,      \* the heap of ConnectionPool objects, by address (pool id)
    conns,      \* the heap of NNTPConn objects, by address (connection id)
    wk,         \* the FetchSegment goroutines
    ctxDone,    \* the context handed to FetchSegment is cancelled
    crashed,    \* a goroutine panicked (the process is gone)
    nReconf     \* number of pool manager reconfigurations so far

poolVars == <<pmIface, pmPools, pools, conns, wk, ctxDone, crashed, nReconf>>

VARIABLES
    jobs,       \* the downloads table: job id -> [status, err]
    plan,       \* the parsed NZB of every job: files of segment numbers
    paused,     \* queue.Manager.paused
    eng,        \* the processLoop goroutine: pc and the locals it is at
    gr,         \* per segment goroutine: the index idx it was started with
    activeJob,  \* Engine.activeDownloads (at most one entry), 0 = empty
    stopped,    \* Engine.ctx is cancelled (Engine.Stop)
    disk,       \* the assembled files: job -> file -> what was written
    pp,         \* the post-processor goroutine of every job
    cn,         \* a CancelDownload call in progress
    nCancels,   \* number of CancelDownload calls so far
    segFailed   \* history: jobs of which a segment fetch or decode failed

engVars == <<jobs, plan, paused, eng, gr, activeJob, stopped, disk, pp, cn,
             nCancels, segFailed>>

VARIABLES
    vpnMode,    \* cfg.VPN.Protocol: "passive" (empty) or "managed"
    autoConnect,\* cfg.VPN.AutoConnect is nil or true
    ifUp,       \* the operating system's view: the VPN interface is up
    mainPc,     \* where func main is
    mon,        \* Manager.monitor: [exists, isUp, ticking]
    cb,         \* per goroutine: the onUp / onDown callback it is inside
    rec         \* the reconnect loop goroutine: [pc, attempt]

vpnVars == <<vpnMode, autoConnect, ifUp, mainPc, mon, cb, rec>>

VARIABLES
    remote,     \* per server name: what the remote NNTP server does
    atDown,     \* history: the fetches that were in flight at the last OnDown
    wr,         \* the PoolManager writer that is blocked in pm.mu.Lock()
    prog,       \* totalDone, totalBytes and the persisted progress of a job
    pw,         \* per segment goroutine: where it is in its progress update
    createdAt,  \* downloads.created_at of every row, by job id
    applied,    \* the last UpdateServers call: its list, the fetches begun since
    mgr,        \* vpn.Manager: ctx, wg, reconnect worker, monitors, Stop's position
    call        \* the component a single-component specification is about
                \* (a call of DecodeYEnc or nzb.Parse, the file loop of
                \* processDownload, a Monitor, ...): input, locals, result

auxVars == <<remote, atDown, wr, prog, pw, createdAt, applied, mgr, call>>
vars == <<poolVars, engVars, vpnVars, auxVars>>

\* ------------------------------------------------------- ConnectionPool
\* Objects live on a heap: an address whose object is closed and that no
\* goroutine and no map entry refers to any more is reused by the next
\* allocation (the garbage collector's view; addresses carry no meaning).

DeadPool == [server |-> Srv("", FALSE, 0), vpnInterface |-> "", maxConns |-> 0,
             conns |-> <<>>, active |-> 0, closed |-> TRUE]
DeadConn == [pool |-> 0, iface |-> "", policy |-> "", closed |-> TRUE]

\* The lowest free address of a heap.
NewAddr(heap, dead) ==
    IF \E i \in DOMAIN heap : heap[i] = dead
    THEN CHOOSE i \in DOMAIN heap :
           heap[i] = dead /\ \A j \in DOMAIN heap : heap[j] = dead => i <= j
    ELSE Len(heap) + 1

Store(heap, addr, obj) ==
    IF addr \in DOMAIN heap THEN [heap EXCEPT ![addr] = obj] ELSE Append(heap, obj)

NewConnectionPool(server, vpnInterface) ==
    [ server       |-> server,
      vpnInterface |-> vpnInterface,
      maxConns     |-> IF server.Connections <= 0 THEN 10
                       ELSE IF server.Connections > 50 THEN 50
                       ELSE server.Connections,
      conns        |-> <<>>,       \* the buffered channel of idle connections
      active       |-> 0,
      closed       |-> FALSE ]

\* A goroutine still holds a connection it leased from this pool.
PoolHeld(pid, wks) == \E w \in DOMAIN wks : wks[w].pool = pid

\* ConnectionPool.Close: close(p.conns), then close every idle connection.
PoolClose(ps, cs, pid) ==
    [ p |-> [ps EXCEPT ![pid] = IF PoolHeld(pid, wk)
                                THEN [@ EXCEPT !.closed = TRUE, !.conns = <<>>]
                                ELSE DeadPool],
      c |-> [i \in DOMAIN cs |->
               IF \E k \in DOMAIN ps[pid].conns : ps[pid].conns[k] = i
               THEN DeadConn ELSE cs[i]] ]

RECURSIVE CloseEach(_, _, _)
CloseEach(ps, cs, pids) ==
    IF pids = {} THEN [p |-> ps, c |-> cs]
    ELSE LET pid == CHOOSE x \in pids : TRUE
             r   == PoolClose(ps, cs, pid)
         IN  CloseEach(r.p, r.c, pids \ {pid})

\* ----------------------------------------------------------- PoolManager

PresentNames == {n \in Names : pmPools[n] # 0}
PresentPools == {pmPools[n] : n \in PresentNames}

\* GetConnection holds pm.mu.RLock from its first line to its return.
RLockHeld(w) == wk[w].pc \in {"getconn", "get_lock", "get_wait", "dial"}
NoReader == \A w \in Workers : ~RLockHeld(w)

IdleWorker == [pc |-> "idle", attempt |-> 0, todo |-> {}, pool |-> 0,
               conn |-> 0, how |-> "none", lastErr |-> "none", res |-> "none",
               from |-> ""]

\* What the remote server of a pool does: "ok" accepts the connection and
\* serves the article, "notfound" accepts it and answers 430, "any" may also
\* refuse the connection or break it.
RemoteOf(pid) == remote[pools[pid].server.Name]

RECURSIVE AddPools(_, _, _, _)
\* Mutant: a pool is created for every enabled server, present or not.
AddPools_Always(servers, i, mp, ps) ==
    IF i > Len(servers) THEN [m |-> mp, p |-> ps]
    ELSE LET s == servers[i] IN
         IF s.Enabled
         THEN LET pid == NewAddr(ps, DeadPool) IN
              AddPools(servers, i + 1, [mp EXCEPT ![s.Name] = pid],
                       Store(ps, pid, NewConnectionPool(s, pmIface)))
         ELSE AddPools(servers, i + 1, mp, ps)

\* The second loop of UpdateServers over servers[i..].
AddPools(servers, i, mp, ps) ==
    IF i > Len(servers) THEN [m |-> mp, p |-> ps]
    ELSE LET s == servers[i] IN
         IF s.Enabled /\ mp[s.Name] = 0
         THEN LET pid == NewAddr(ps, DeadPool) IN
              AddPools(servers, i + 1, [mp EXCEPT ![s.Name] = pid],
                       Store(ps, pid, NewConnectionPool(s, pmIface)))
         ELSE AddPools(servers, i + 1, mp, ps)

\* Mutant: the first loop keeps the pool of every server of the list,
\* enabled or not.
Reconcile_KeepDisabled(servers, mp, ps, cs) ==
    LET newNames == {servers[i].Name : i \in DOMAIN servers}
        removed  == {n \in Names : mp[n] # 0 /\ n \notin newNames}
        cl       == CloseEach(ps, cs, {mp[n] : n \in removed})
        kept     == [n \in Names |-> IF n \in removed THEN 0 ELSE mp[n]]
        r        == AddPools(servers, 1, kept, cl.p)
    IN  [m |-> r.m, p |-> r.p, c |-> cl.c]

\* The map, the pools and the connections UpdateServers(servers) leaves.
Reconcile(servers, mp, ps, cs) ==
    LET newNames == {servers[i].Name : i \in {j \in DOMAIN servers : servers[j].Enabled}}
        removed  == {n \in Names : mp[n] # 0 /\ n \notin newNames}
        cl       == CloseEach(ps, cs, {mp[n] : n \in removed})
        kept     == [n \in Names |-> IF n \in removed THEN 0 ELSE mp[n]]
        r        == AddPools(servers, 1, kept, cl.p)
    IN  [m |-> r.m, p |-> r.p, c |-> cl.c]

UpdateServers(servers) ==
    /\ ~crashed /\ NoReader
    /\ LET r == Reconcile(servers, pmPools, pools, conns)
       IN  /\ pmPools' = r.m
           /\ pools' = r.p
           /\ conns' = r.c
    /\ UNCHANGED <<pmIface, wk, ctxDone, crashed>>

\* Mutant: the policy is updated but the pools of the old interface stay.
SetVPNInterface_KeepPools(iface) ==
    /\ ~crashed /\ NoReader
    /\ pmIface' = iface
    /\ UNCHANGED <<pmPools, pools, conns, wk, ctxDone, crashed>>

SetVPNInterface(iface) ==
    /\ ~crashed /\ NoReader
    /\ pmIface' = iface
    /\ LET cl == CloseEach(pools, conns, PresentPools)
       IN  pools' = cl.p /\ conns' = cl.c
    /\ pmPools' = [n \in Names |-> 0]
    /\ UNCHANGED <<wk, ctxDone, crashed>>

CloseAll ==
    /\ ~crashed /\ NoReader
    /\ LET cl == CloseEach(pools, conns, PresentPools)
       IN  pools' = cl.p /\ conns' = cl.c
    /\ pmPools' = [n \in Names |-> 0]
    /\ UNCHANGED <<pmIface, wk, ctxDone, crashed>>

\* ----------------------------------------------- PoolManager.FetchSegment

SetWk(w, r) == wk' = [wk EXCEPT ![w] = r]

\* Mutant: a fourth attempt is made before giving up.
Retry_OneMore(w, err) ==
    IF wk[w].attempt < MaxAttempts
    THEN [IdleWorker EXCEPT !.pc = "attempt", !.attempt = wk[w].attempt + 1]
    ELSE [IdleWorker EXCEPT !.pc = "ret", !.res = "err", !.lastErr = err]

\* The end of one failed attempt: lastErr = err; continue, or leave the loop
\* with "all retries failed ...: lastErr".
Retry(w, err) ==
    IF wk[w].attempt + 1 < MaxAttempts
    THEN [IdleWorker EXCEPT !.pc = "attempt", !.attempt = wk[w].attempt + 1]
    ELSE [IdleWorker EXCEPT !.pc = "ret", !.res = "err", !.lastErr = err]

\* The backoff select, case <-ctx.Done(): return nil, ctx.Err().
BackoffCancelled(w) ==
    /\ wk[w].attempt > 0 /\ ctxDone
    /\ SetWk(w, [IdleWorker EXCEPT !.pc = "ret", !.res = "err",
                                   !.lastErr = "ctx"])

\* Top of the attempt loop: the backoff select (attempt > 0), then
\* GetConnection takes the read lock and starts ranging over pm.pools.
\* sync.RWMutex: RLock blocks while a Lock call is waiting.
BeginAttempt(w) ==
    /\ ~crashed /\ wk[w].pc = "attempt"
    /\ \/ /\ wr = "none"
          /\ SetWk(w, [wk[w] EXCEPT !.pc = "getconn", !.todo = PresentNames])
       \/ BackoffCancelled(w)
    /\ UNCHANGED <<pmIface, pmPools, pools, conns, ctxDone, crashed, nReconf>>
    /\ UNCHANGED <<engVars, vpnVars>>
    /\ UNCHANGED auxVars

\* GetConnection: the range is exhausted, "no NNTP connections available".
GetConnNone(w) ==
    /\ ~crashed /\ wk[w].pc = "getconn" /\ wk[w].todo = {}
    /\ SetWk(w, Retry(w, "noconn"))
    /\ UNCHANGED <<pmIface, pmPools, pools, conns, ctxDone, crashed, nReconf>>
    /\ UNCHANGED <<engVars, vpnVars>>
    /\ UNCHANGED auxVars

\* Mutant: the idle connection is handed out but stays in the channel.
PoolGetRecv_Peek(w, n) ==
    /\ ~crashed /\ wk[w].pc = "getconn" /\ n \in wk[w].todo
    /\ LET pid == pmPools[n] IN
       IF pools[pid].conns # <<>>
       THEN SetWk(w, [wk[w] EXCEPT !.pc = "fetch", !.todo = {}, !.pool = pid,
                                   !.conn = Head(pools[pid].conns), !.how = "idle"])
       ELSE SetWk(w, [wk[w] EXCEPT !.pc = "get_lock", !.pool = pid, !.todo = @ \ {n}])
    /\ UNCHANGED <<pmIface, pmPools, pools, conns, ctxDone, crashed, nReconf>>
    /\ UNCHANGED <<engVars, vpnVars>>
    /\ UNCHANGED auxVars

\* ConnectionPool.Get, first select: take an idle connection if there is one.
\* The range order over the map is unspecified: any remaining pool is next.
PoolGetRecv(w, n) ==
    /\ ~crashed /\ wk[w].pc = "getconn" /\ n \in wk[w].todo
    /\ LET pid == pmPools[n] IN
       IF pools[pid].closed
       THEN \* receive on a closed channel yields nil; FetchBody on nil panics
            /\ crashed' = TRUE
            /\ UNCHANGED <<pools, wk>>
       ELSE IF pools[pid].conns # <<>>
       THEN /\ pools' = [pools EXCEPT ![pid].conns = Tail(@)]
            /\ SetWk(w, [wk[w] EXCEPT !.pc = "fetch", !.todo = {}, !.pool = pid,
                                      !.conn = Head(pools[pid].conns),
                                      !.how = "idle"])
            /\ UNCHANGED crashed
       ELSE /\ SetWk(w, [wk[w] EXCEPT !.pc = "get_lock", !.pool = pid,
                                      !.todo = @ \ {n}])
            /\ UNCHANGED <<pools, crashed>>
    /\ UNCHANGED <<pmIface, pmPools, conns, ctxDone, nReconf>>
    /\ UNCHANGED <<engVars, vpnVars>>
    /\ UNCHANGED auxVars

\* Mutant: a new connection is counted and dialed whatever the limit.
PoolGetLock_NoLimit(w) ==
    /\ ~crashed /\ wk[w].pc = "get_lock"
    /\ pools' = [pools EXCEPT ![wk[w].pool].active = @ + 1]
    /\ SetWk(w, [wk[w] EXCEPT !.pc = "dial"])
    /\ UNCHANGED <<pmIface, pmPools, conns, ctxDone, crashed, nReconf>>
    /\ UNCHANGED <<engVars, vpnVars>>
    /\ UNCHANGED auxVars

\* ConnectionPool.Get, under p.mu: at the limit wait, else count a new one.
PoolGetLock(w) ==
    /\ ~crashed /\ wk[w].pc = "get_lock"
    /\ LET pid == wk[w].pool IN
       IF pools[pid].active >= pools[pid].maxConns
       THEN /\ SetWk(w, [wk[w] EXCEPT !.pc = "get_wait"])
            /\ UNCHANGED pools
       ELSE /\ pools' = [pools EXCEPT ![pid].active = @ + 1]
            /\ SetWk(w, [wk[w] EXCEPT !.pc = "dial"])
    /\ UNCHANGED <<pmIface, pmPools, conns, ctxDone, crashed, nReconf>>
    /\ UNCHANGED <<engVars, vpnVars>>
    /\ UNCHANGED auxVars

\* ConnectionPool.Get, second select: a returned connection or ctx.Done().
PoolGetWait(w) ==
    /\ ~crashed /\ wk[w].pc = "get_wait"
    /\ LET pid == wk[w].pool IN
       \/ /\ pools[pid].conns # <<>>
          /\ pools' = [pools EXCEPT ![pid].conns = Tail(@)]
          /\ SetWk(w, [wk[w] EXCEPT !.pc = "fetch", !.todo = {},
                                    !.conn = Head(pools[pid].conns),
                                    !.how = "idle"])
       \/ /\ ctxDone
          /\ SetWk(w, [wk[w] EXCEPT !.pc = "getconn", !.pool = 0])
          /\ UNCHANGED pools
    /\ UNCHANGED <<pmIface, pmPools, conns, ctxDone, crashed, nReconf>>
    /\ UNCHANGED <<engVars, vpnVars>>
    /\ UNCHANGED auxVars

\* Connect(ctx, p.server, p.vpnInterface) and what Get does with its result.
PoolGetDial(w) ==
    /\ ~crashed /\ wk[w].pc = "dial"
    /\ LET pid == wk[w].pool
           c   == NewAddr(conns, DeadConn) IN
       \/ /\ ~ctxDone
          /\ pools[pid].vpnInterface = "" \/ ifUp
          /\ conns' = Store(conns, c, [pool |-> pid, closed |-> FALSE,
                                       iface |-> pools[pid].vpnInterface,
                                       policy |-> pmIface])
          /\ SetWk(w, [wk[w] EXCEPT !.pc = "fetch", !.todo = {}, !.conn = c,
                                    !.how = "dial"])
          /\ UNCHANGED pools
       \/ /\ ctxDone \/ ~(pools[pid].vpnInterface = "" \/ ifUp)
                     \/ RemoteOf(pid) = "any"
          /\ pools' = [pools EXCEPT ![pid].active = @ - 1]
          /\ SetWk(w, [wk[w] EXCEPT !.pc = "getconn", !.pool = 0])
          /\ UNCHANGED conns
    /\ UNCHANGED <<pmIface, pmPools, ctxDone, crashed, nReconf>>
    /\ UNCHANGED <<engVars, vpnVars>>
    /\ UNCHANGED auxVars

\* FetchBody succeeded; ConnectionPool.Put(conn); FetchSegment returns data.
PoolPut(w) ==
    /\ ~crashed /\ wk[w].pc = "fetch"
    /\ RemoteOf(wk[w].pool) # "notfound"
    /\ LET pid == wk[w].pool
           c   == wk[w].conn IN
       IF pools[pid].closed
       THEN \* send on a closed channel panics
            /\ crashed' = TRUE
            /\ UNCHANGED <<pools, conns, wk>>
       ELSE IF Len(pools[pid].conns) < pools[pid].maxConns
       THEN /\ pools' = [pools EXCEPT ![pid].conns = Append(@, c)]
            /\ SetWk(w, [IdleWorker EXCEPT !.pc = "ret", !.res = "ok",
                                           !.from = pools[pid].server.Name])
            /\ UNCHANGED <<conns, crashed>>
       ELSE /\ pools' = [pools EXCEPT ![pid].active = @ - 1]
            /\ conns' = [conns EXCEPT ![c] = DeadConn]
            /\ SetWk(w, [IdleWorker EXCEPT !.pc = "ret", !.res = "ok",
                                           !.from = pools[pid].server.Name])
            /\ UNCHANGED crashed
    /\ UNCHANGED <<pmIface, pmPools, ctxDone, nReconf>>
    /\ UNCHANGED <<engVars, vpnVars>>
    /\ UNCHANGED auxVars

\* Mutant: the failed connection is dropped without Discard.
PoolDiscard_Leak(w) ==
    /\ ~crashed /\ wk[w].pc = "fetch"
    /\ RemoteOf(wk[w].pool) # "ok"
    /\ SetWk(w, Retry(w, "fetchbody"))
    /\ UNCHANGED <<pmIface, pmPools, pools, conns, ctxDone, crashed, nReconf>>
    /\ UNCHANGED <<engVars, vpnVars>>
    /\ UNCHANGED auxVars

\* FetchBody failed; ConnectionPool.Discard(conn); next attempt.
PoolDiscard(w) ==
    /\ ~crashed /\ wk[w].pc = "fetch"
    /\ RemoteOf(wk[w].pool) # "ok"
    /\ LET pid  == wk[w].pool
           c    == wk[w].conn
           last == pools[pid].closed /\ ~PoolHeld(pid, [v \in Workers \ {w} |-> wk[v]])
       IN
       /\ pools' = [pools EXCEPT ![pid] = IF last THEN DeadPool
                                          ELSE [@ EXCEPT !.active = @ - 1]]
       /\ conns' = [conns EXCEPT ![c] = DeadConn]
    /\ SetWk(w, Retry(w, "fetchbody"))
    /\ UNCHANGED <<pmIface, pmPools, ctxDone, crashed, nReconf>>
    /\ UNCHANGED <<engVars, vpnVars>>
    /\ UNCHANGED auxVars

\* One step of a goroutine inside FetchSegment.
FetchStep(w) ==
    \/ BeginAttempt(w)
    \/ GetConnNone(w)
    \/ \E n \in Names : PoolGetRecv(w, n)
    \/ PoolGetLock(w)
    \/ PoolGetWait(w)
    \/ PoolGetDial(w)
    \/ PoolPut(w)
    \/ PoolDiscard(w)

\* ------------------------------------------------------------ queue store
\* manager.go: UPDATE downloads SET status = ? WHERE id = ?
UpdateStatus(js, id, status) == [js EXCEPT ![id].status = status]

\* manager.go: UPDATE downloads SET status = 'failed', error_msg = ? WHERE id = ?
SetError(js, id, msg) == [js EXCEPT ![id] = [status |-> "failed", err |-> msg]]

\* Mutant: LIMIT 1 without the ORDER BY.
GetNextQueued_Unordered(js) == {j \in DOMAIN js : js[j].status = "queued"}

\* manager.go GetNextQueued: ... WHERE status = 'queued' ORDER BY created_at
\* ASC LIMIT 1: the rows the query may return (which one of several rows
\* with the same created_at is unspecified); empty = sql.ErrNoRows.
GetNextQueued(js) ==
    LET q == {j \in DOMAIN js : js[j].status = "queued"} IN
    {j \in q : \A k \in q : createdAt[j] <= createdAt[k]}

\* ------------------------------------------------------------- NZB plans
\* A file is the sequence of its segments' numbers in document order; the
\* payload of a segment is named by its position in that sequence.
Plans ==
    { << <<2, 1>> >>,
      << <<1>>, <<1, 1>> >> }

RECURSIVE InsertionSort(_, _, _)
\* sort.Slice on at most 12 elements is an insertion sort: element k moves
\* left while its number is less than its left neighbour's.
InsertionSort(file, k, sorted) ==
    IF k > Len(file) THEN sorted
    ELSE LET keep == {i \in 1..Len(sorted) : file[sorted[i]] <= file[k]}
             p    == IF keep = {} THEN 0
                     ELSE CHOOSE i \in keep : \A m \in keep : m <= i
         IN InsertionSort(file, k + 1,
                SubSeq(sorted, 1, p) \o <<k>> \o
                SubSeq(sorted, p + 1, Len(sorted)))

\* nzb File.SortedSegments: the segments (by position) in number order.
SortedSegments(file) == InsertionSort(file, 1, <<>>)

\* ------------------------------------------------------------------ Engine
IdleEngine == [pc |-> "wait", job |-> 0, file |-> 0, seg |-> 0,
               order |-> <<>>, results |-> <<>>, dfErr |-> "", pdErr |-> ""]

NoFile == [state |-> "none", data |-> <<>>]

\* dlCtx.Err() != nil
CtxErr == ctxDone

\* processDownload returns: the deferred delete(activeDownloads, id) and
\* dlCancel() run, processLoop goes back to its select.
PdReturn ==
    /\ eng' = IdleEngine
    /\ activeJob' = 0

\* processLoop: the select at the top of the loop.
LoopSelect ==
    /\ ~crashed /\ eng.pc = "wait"
    /\ mainPc \in {"banner", "banner_pause", "serve"}
    /\ \/ stopped /\ eng' = [eng EXCEPT !.pc = "exit"]
       \/ eng' = [eng EXCEPT !.pc = "check"]
    /\ UNCHANGED <<jobs, plan, paused, gr, activeJob, stopped, disk, pp, cn,
                   nCancels, segFailed>>
    /\ UNCHANGED <<poolVars, vpnVars>>
    /\ UNCHANGED auxVars

\* processLoop: if e.queueMgr.IsPaused() { continue }
LoopCheckPaused ==
    /\ ~crashed /\ eng.pc = "check"
    /\ eng' = [eng EXCEPT !.pc = IF paused THEN "wait" ELSE "next"]
    /\ UNCHANGED <<jobs, plan, paused, gr, activeJob, stopped, disk, pp, cn,
                   nCancels, segFailed>>
    /\ UNCHANGED <<poolVars, vpnVars>>
    /\ UNCHANGED auxVars

\* processLoop: dl := GetNextQueued(); if dl == nil { continue }
LoopGetNext ==
    /\ ~crashed /\ eng.pc = "next"
    /\ IF GetNextQueued(jobs) = {}
       THEN eng' = [eng EXCEPT !.pc = "wait"]
       ELSE \E j \in GetNextQueued(jobs) :
              eng' = [eng EXCEPT !.pc = "pd_reg", !.job = j]
    /\ UNCHANGED <<jobs, plan, paused, gr, activeJob, stopped, disk, pp, cn,
                   nCancels, segFailed>>
    /\ UNCHANGED <<poolVars, vpnVars>>
    /\ UNCHANGED auxVars

\* processDownload: dlCtx, dlCancel := context.WithCancel(e.ctx);
\* e.activeDownloads[dl.ID] = dlCancel
PdRegister ==
    /\ ~crashed /\ eng.pc = "pd_reg"
    /\ activeJob' = eng.job
    /\ ctxDone' = stopped
    /\ eng' = [eng EXCEPT !.pc = "pd_status"]
    /\ UNCHANGED <<jobs, plan, paused, gr, stopped, disk, pp, cn, nCancels,
                   segFailed>>
    /\ UNCHANGED <<pmIface, pmPools, pools, conns, wk, crashed, nReconf>>
    /\ UNCHANGED vpnVars
    /\ UNCHANGED auxVars

\* processDownload: UpdateStatus(dl.ID, queue.StatusDownloading)
PdStatusDownloading ==
    /\ ~crashed /\ eng.pc = "pd_status"
    /\ jobs' = UpdateStatus(jobs, eng.job, "downloading")
    /\ eng' = [eng EXCEPT !.pc = "pd_prep"]
    /\ UNCHANGED <<plan, paused, gr, activeJob, stopped, disk, pp, cn,
                   nCancels, segFailed>>
    /\ UNCHANGED <<poolVars, vpnVars>>
    /\ UNCHANGED auxVars

\* processDownload: ParseBytes, MkdirAll, UpdatePath.  The NZB passed the
\* same parser when it was added; creating the directory may fail.
PdPrepare ==
    /\ ~crashed /\ eng.pc = "pd_prep"
    /\ \/ /\ eng' = [eng EXCEPT !.pc = "files", !.file = 1]
          /\ UNCHANGED <<jobs, activeJob>>
       \/ /\ jobs' = SetError(jobs, eng.job, "mkdir error")
          /\ PdReturn
    /\ UNCHANGED <<plan, paused, gr, stopped, disk, pp, cn, nCancels,
                   segFailed>>
    /\ UNCHANGED <<poolVars, vpnVars>>
    /\ UNCHANGED auxVars

\* processDownload: for _, file := range nzbFile.Files {
\*   if dlCtx.Err() != nil || IsPaused() { break }; downloadFile(...) }
\* and the head of downloadFile (SortedSegments, results, sem, wg).
PdFileLoop ==
    /\ ~crashed /\ eng.pc = "files"
    /\ eng' = IF eng.file > Len(plan[eng.job]) THEN [eng EXCEPT !.pc = "after"]
              ELSE IF CtxErr \/ paused THEN [eng EXCEPT !.pc = "after"]
              ELSE LET segments == SortedSegments(plan[eng.job][eng.file]) IN
                   [eng EXCEPT !.pc = "df_loop", !.seg = 1,
                               !.order = segments,
                               !.results = [i \in 1..Len(segments) |-> 0],
                               !.dfErr = ""]
    /\ UNCHANGED <<jobs, plan, paused, gr, activeJob, stopped, disk, pp, cn,
                   nCancels, segFailed>>
    /\ UNCHANGED <<poolVars, vpnVars>>
    /\ UNCHANGED auxVars

\* downloadFile: for i, seg := range segments {
\*   if ctx.Err() != nil || IsPaused() { break }; wg.Add(1)
DfLoop ==
    /\ ~crashed /\ eng.pc = "df_loop"
    /\ eng' = IF eng.seg > Len(eng.order) THEN [eng EXCEPT !.pc = "df_wait"]
              ELSE IF CtxErr \/ paused THEN [eng EXCEPT !.pc = "df_wait"]
              ELSE [eng EXCEPT !.pc = "df_sem"]
    /\ UNCHANGED <<jobs, plan, paused, gr, activeJob, stopped, disk, pp, cn,
                   nCancels, segFailed>>
    /\ UNCHANGED <<poolVars, vpnVars>>
    /\ UNCHANGED auxVars

\* The free slot of the semaphore a new goroutine takes.
FreeSlot == CHOOSE g \in Workers : gr[g] = 0 /\ \A h \in Workers : gr[h] = 0 => g <= h

\* downloadFile: sem <- struct{}{}; go func(idx, segment) { ...
\* FetchSegment(ctx, segment.MessageID) is the goroutine's first call.
DfDispatch ==
    /\ ~crashed /\ eng.pc = "df_sem"
    /\ \E g \in Workers : gr[g] = 0
    /\ gr' = [gr EXCEPT ![FreeSlot] = eng.seg]
    /\ SetWk(FreeSlot, [IdleWorker EXCEPT !.pc = "attempt"])
    /\ eng' = [eng EXCEPT !.pc = "df_loop", !.seg = eng.seg + 1]
    /\ UNCHANGED <<jobs, plan, paused, activeJob, stopped, disk, pp, cn,
                   nCancels, segFailed>>
    /\ UNCHANGED <<pmIface, pmPools, pools, conns, ctxDone, crashed, nReconf>>
    /\ UNCHANGED vpnVars
    /\ UNCHANGED auxVars

\* errOnce.Do(func() { downloadErr = ... })
ErrOnce(e, msg) == IF e.dfErr = "" THEN [e EXCEPT !.dfErr = msg] ELSE e

\* The segment goroutine after FetchSegment returned: the error branch, or
\* DecodeYEnc and results[idx] = decoded.Data; then <-sem and wg.Done().
SegFinish(g) ==
    /\ ~crashed /\ gr[g] # 0 /\ wk[g].pc = "ret"
    /\ \/ /\ wk[g].res = "err"
          /\ eng' = ErrOnce(eng, "segment")
          /\ segFailed' = segFailed \cup {eng.job}
       \/ /\ wk[g].res = "ok"
          /\ eng' = ErrOnce(eng, "yenc decode segment")
          /\ segFailed' = segFailed \cup {eng.job}
       \/ /\ wk[g].res = "ok"
          /\ eng' = [eng EXCEPT !.results[gr[g]] = eng.order[gr[g]]]
          /\ UNCHANGED segFailed
    /\ gr' = [gr EXCEPT ![g] = 0]
    /\ SetWk(g, IdleWorker)
    /\ atDown' = atDown \ {g}
    /\ UNCHANGED <<jobs, plan, paused, activeJob, stopped, disk, pp, cn,
                   nCancels>>
    /\ UNCHANGED <<pmIface, pmPools, pools, conns, ctxDone, crashed, nReconf>>
    /\ UNCHANGED vpnVars
    /\ UNCHANGED <<remote, wr, prog, pw, createdAt, applied, mgr, call>>

\* The results written before the first nil slot.
RECURSIVE WrittenPrefix(_, _)
WrittenPrefix(results, i) ==
    IF i > Len(results) \/ results[i] = 0 THEN <<>>
    ELSE <<results[i]>> \o WrittenPrefix(results, i + 1)

\* downloadFile returned: its locals are gone.
DfReturn(e) == [e EXCEPT !.seg = 0, !.order = <<>>, !.results = <<>>,
                         !.dfErr = ""]

SetDisk(j, f, r) == disk' = [disk EXCEPT ![j][f] = r]

\* downloadFile after wg.Wait(): return downloadErr, or os.Create and the
\* loop that writes results[0..] in index order; back in processDownload
\* an error sets downloadErr and leaves the file loop.
DfAssemble ==
    /\ ~crashed /\ eng.pc = "df_wait"
    /\ \A g \in Workers : gr[g] = 0
    /\ IF eng.dfErr # ""
       THEN /\ eng' = DfReturn([eng EXCEPT !.pc = "after", !.pdErr = eng.dfErr])
            /\ UNCHANGED disk
       ELSE \/ /\ eng' = DfReturn([eng EXCEPT !.pc = "after",
                                                  !.pdErr = "creating file"])
               /\ UNCHANGED disk
            \/ LET data == WrittenPrefix(eng.results, 1) IN
               IF Len(data) < Len(eng.results)
               THEN /\ eng' = DfReturn([eng EXCEPT !.pc = "after",
                                              !.pdErr = "missing segment"])
                    /\ SetDisk(eng.job, eng.file,
                               [state |-> "partial", data |-> data])
               ELSE /\ eng' = DfReturn([eng EXCEPT !.pc = "files",
                                              !.file = eng.file + 1])
                    /\ SetDisk(eng.job, eng.file,
                               [state |-> "assembled", data |-> data])
    /\ UNCHANGED <<jobs, plan, paused, gr, activeJob, stopped, pp, cn,
                   nCancels, segFailed>>
    /\ UNCHANGED <<poolVars, vpnVars>>
    /\ UNCHANGED auxVars

\* Mutant: the file loop's downloadErr is not looked at.
PdAfter_IgnoreError ==
    /\ ~crashed /\ eng.pc = "after"
    /\ eng' = [eng EXCEPT !.pc = "pd_proc"]
    /\ UNCHANGED <<jobs, activeJob>>
    /\ UNCHANGED <<plan, paused, gr, stopped, disk, pp, cn, nCancels,
                   segFailed>>
    /\ UNCHANGED <<poolVars, vpnVars>>
    /\ UNCHANGED auxVars

\* processDownload after the file loop: if downloadErr != nil {
\*   SetError(dl.ID, "download error: ..."); return }
PdAfter ==
    /\ ~crashed /\ eng.pc = "after"
    /\ IF eng.pdErr # ""
       THEN /\ jobs' = SetError(jobs, eng.job, "download error")
            /\ PdReturn
       ELSE /\ eng' = [eng EXCEPT !.pc = "pd_proc"]
            /\ UNCHANGED <<jobs, activeJob>>
    /\ UNCHANGED <<plan, paused, gr, stopped, disk, pp, cn, nCancels,
                   segFailed>>
    /\ UNCHANGED <<poolVars, vpnVars>>
    /\ UNCHANGED auxVars

\* processDownload: UpdateStatus(dl.ID, queue.StatusProcessing)
PdStatusProcessing ==
    /\ ~crashed /\ eng.pc = "pd_proc"
    /\ jobs' = UpdateStatus(jobs, eng.job, "processing")
    /\ eng' = [eng EXCEPT !.pc = "pd_done"]
    /\ UNCHANGED <<plan, paused, gr, activeJob, stopped, disk, pp, cn,
                   nCancels, segFailed>>
    /\ UNCHANGED <<poolVars, vpnVars>>
    /\ UNCHANGED auxVars

\* processDownload: updatedDL := Get(dl.ID); e.onComplete(updatedDL), which
\* is main.go's go proc.Process(dl); then the function returns.
PdOnComplete ==
    /\ ~crashed /\ eng.pc = "pd_done"
    /\ pp' = [pp EXCEPT ![eng.job] = "running"]
    /\ PdReturn
    /\ UNCHANGED <<jobs, plan, paused, gr, stopped, disk, cn, nCancels,
                   segFailed>>
    /\ UNCHANGED <<poolVars, vpnVars>>
    /\ UNCHANGED auxVars

\* postprocess Processor.Process: every early exit is a SetError, the end
\* is UpdateStatus(dl.ID, queue.StatusCompleted).
PostProcess(j) ==
    /\ ~crashed /\ pp[j] = "running"
    /\ \/ jobs' = SetError(jobs, j, "post-processing error")
       \/ jobs' = UpdateStatus(jobs, j, "completed")
    /\ pp' = [pp EXCEPT ![j] = "done"]
    /\ UNCHANGED <<plan, paused, eng, gr, activeJob, stopped, disk, cn,
                   nCancels, segFailed>>
    /\ UNCHANGED <<poolVars, vpnVars>>
    /\ UNCHANGED auxVars

\* CancelDownload, first half: e.queueMgr.SetError(id, "cancelled by user")
CancelSetError(id) ==
    /\ ~crashed /\ cn.pc = "idle" /\ nCancels < MaxCancels
    /\ jobs' = SetError(jobs, id, "cancelled by user")
    /\ cn' = [pc |-> "cancel", id |-> id]
    /\ nCancels' = nCancels + 1
    /\ UNCHANGED <<plan, paused, eng, gr, activeJob, stopped, disk, pp,
                   segFailed>>
    /\ UNCHANGED <<poolVars, vpnVars>>
    /\ UNCHANGED auxVars

\* CancelDownload, second half: if cancel, ok := e.activeDownloads[id]; ok
\* { cancel() }
CancelCancel ==
    /\ ~crashed /\ cn.pc = "cancel"
    /\ ctxDone' = (ctxDone \/ activeJob = cn.id)
    /\ cn' = [pc |-> "idle", id |-> 0]
    /\ UNCHANGED <<jobs, plan, paused, eng, gr, activeJob, stopped, disk, pp,
                   nCancels, segFailed>>
    /\ UNCHANGED <<pmIface, pmPools, pools, conns, wk, crashed, nReconf>>
    /\ UNCHANGED vpnVars
    /\ UNCHANGED auxVars

\* queue.Manager.SetPaused(b), from the VPN callbacks and from main.
SetPaused(b) ==
    /\ ~crashed /\ paused # b
    /\ paused' = b
    /\ UNCHANGED <<jobs, plan, eng, gr, activeJob, stopped, disk, pp, cn,
                   nCancels, segFailed>>
    /\ UNCHANGED <<poolVars, vpnVars>>
    /\ UNCHANGED auxVars

\* Engine.Stop: e.cancel() cancels e.ctx and every dlCtx derived from it.
Stop ==
    /\ ~crashed /\ ~stopped
    /\ stopped' = TRUE
    /\ ctxDone' = TRUE
    /\ UNCHANGED <<jobs, plan, paused, eng, gr, activeJob, disk, pp, cn,
                   nCancels, segFailed>>
    /\ UNCHANGED <<pmIface, pmPools, pools, conns, wk, crashed, nReconf>>
    /\ UNCHANGED vpnVars
    /\ UNCHANGED auxVars

\* ------------------------------------------------- engine specification
\* The servers the engine's pool manager is configured with.
EngineServers == <<Srv("A", TRUE, 1), Srv("B", FALSE, 2)>>

\* main has finished its start-up, the interface is up and stays up.
InitVpnQuiet ==
    /\ vpnMode = "passive"
    /\ autoConnect = TRUE
    /\ ifUp = TRUE
    /\ mainPc = "serve"
    /\ mon = [exists |-> TRUE, isUp |-> TRUE, ticking |-> TRUE]
    /\ cb = [t \in Threads |-> "none"]
    /\ rec = [pc |-> "off", attempt |-> 0]

\* processDownload: var totalDone atomic.Int32; var totalBytes atomic.Int64;
\* the row of a new download has done_segments = 0, downloaded_bytes = 0.
InitProg ==
    /\ prog = [started |-> 0, totalDone |-> 0, totalBytes |-> 0,
               doneSegments |-> 0, downloadedBytes |-> 0]
    /\ pw = [w \in Workers |-> [pc |-> "idle", done |-> 0, bytes |-> 0]]

\* The rows of the queue were inserted one after the other.
InitCreated == createdAt = [j \in Jobs |-> j]

\* No UpdateServers call is being followed.
InitApplied == applied = [valid |-> FALSE, servers |-> <<>>, since |-> {}]

NumMonitors == 2
Monitors == 1..NumMonitors

NoMon == [state |-> "none", isUp |-> FALSE, cb |-> "none"]
\* vpn.Manager after a successful startManaged: tunnel up, its monitor
\* running, no reconnect worker, Stop not called.
MgrConnected ==
    [ ctxDone |-> FALSE, wg |-> 0, reconnecting |-> FALSE, leaving |-> 0,
      loop |-> [pc |-> "off", attempt |-> 0],
      stop |-> "idle", stopMon |-> 0,
      monitor |-> 1, up |-> TRUE,
      mons |-> [i \in Monitors |->
                 IF i = 1 THEN [state |-> "running", isUp |-> TRUE, cb |-> "none"]
                 ELSE NoMon] ]

InitMgr == mgr = MgrConnected

\* No article is being decoded, no document parsed.
NoCall == [pc |-> "none"]
InitCall == call = NoCall

\* Nothing is assumed about the remote servers.
InitAux ==
    /\ remote = [n \in Names |-> "any"] /\ atDown = {} /\ wr = "none"
    /\ InitProg
    /\ InitCreated
    /\ InitApplied
    /\ InitMgr
    /\ InitCall

\* The engine before Start: the table holds queued jobs, nothing runs.
InitEngineVars ==
    /\ jobs = [j \in Jobs |-> [status |-> "queued", err |-> ""]]
    /\ paused = FALSE
    /\ eng = IdleEngine
    /\ gr = [w \in Workers |-> 0]
    /\ activeJob = 0
    /\ stopped = FALSE
    /\ disk = [j \in Jobs |-> [f \in 1..Len(plan[j]) |-> NoFile]]
    /\ pp = [j \in Jobs |-> "none"]
    /\ cn = [pc |-> "idle", id |-> 0]
    /\ nCancels = 0
    /\ segFailed = {}

InitEngine ==
    /\ pmIface = ""
    /\ LET r == AddPools(EngineServers, 1, [n \in Names |-> 0], <<>>) IN
       pmPools = r.m /\ pools = r.p
    /\ conns = <<>>
    /\ wk = [w \in Workers |-> IdleWorker]
    /\ ctxDone = FALSE
    /\ crashed = FALSE
    /\ nReconf = 0
    /\ plan \in [Jobs -> Plans]
    /\ InitEngineVars
    /\ InitAux
    /\ InitVpnQuiet

NextEngine ==
    \/ LoopSelect
    \/ LoopCheckPaused
    \/ LoopGetNext
    \/ PdRegister
    \/ PdStatusDownloading
    \/ PdPrepare
    \/ PdFileLoop
    \/ DfLoop
    \/ DfDispatch
    \/ \E g \in Workers : FetchStep(g)
    \/ \E g \in Workers : SegFinish(g)
    \/ DfAssemble
    \/ PdAfter
    \/ PdStatusProcessing
    \/ PdOnComplete
    \/ \E j \in Jobs : PostProcess(j)
    \/ \E id \in Jobs : CancelSetError(id)
    \/ CancelCancel
    \/ \E b \in BOOLEAN : SetPaused(b)
    \/ Stop

SpecEngine == InitEngine /\ [][NextEngine]_vars

\* --------------------------------------------------- VPN manager and main
\* The interface name the monitor watches and the pools are bound to.
VpnInterface == "wg0"

NoMonitor == [exists |-> FALSE, isUp |-> FALSE, ticking |-> FALSE]
RecOff == [pc |-> "off", attempt |-> 0]

\* vpn Manager.IsUp: the monitor's isUp, false without a monitor.
MgrIsUp == mon.exists /\ mon.isUp

SetCb(t, pc) == cb' = [cb EXCEPT ![t] = pc]

\* NewMonitor(ifName); monitor.Start(): the initial checkInterface runs in
\* the caller t, isUp starts false, so onUp fires iff the interface is up.
\* The ticker goroutine starts when that check has returned.
StartMonitor(t, up) ==
    /\ mon' = [exists |-> TRUE, isUp |-> up, ticking |-> ~up]
    /\ SetCb(t, IF up THEN "up_setif" ELSE "none")

\* main.go: vpnMgr.Start(ctx): startPassive, or startManaged with its
\* initial conn.Connect.
MainVpnStart ==
    /\ ~crashed /\ mainPc = "start"
    /\ mainPc' = "engine"
    /\ IF vpnMode = "passive"
       THEN /\ StartMonitor("main", ifUp)
            /\ UNCHANGED <<ifUp, rec>>
       ELSE IF ~autoConnect
       THEN UNCHANGED <<ifUp, mon, cb, rec>>
       ELSE \/ /\ ifUp' = TRUE
               /\ StartMonitor("main", TRUE)
               /\ UNCHANGED rec
            \/ /\ rec' = [pc |-> "backoff", attempt |-> 1]
               /\ UNCHANGED <<ifUp, mon, cb>>
    /\ UNCHANGED <<vpnMode, autoConnect>>
    /\ UNCHANGED <<poolVars, engVars>>
    /\ UNCHANGED auxVars

\* main.go: engine.Start()
MainEngineStart ==
    /\ ~crashed /\ mainPc = "engine" /\ cb["main"] = "none"
    /\ mainPc' = "banner"
    /\ UNCHANGED <<vpnMode, autoConnect, ifUp, mon, cb, rec>>
    /\ UNCHANGED <<poolVars, engVars>>
    /\ UNCHANGED auxVars

\* main.go: if vpnMgr.IsUp() {...} else if cfg.VPN.Protocol != "" {...}
\* else { log.Printf(...); queueMgr.SetPaused(true) }: the test, and in its
\* last branch the SetPaused(true) that follows the log line.
MainBanner ==
    /\ ~crashed
    /\ \/ /\ mainPc = "banner"
          /\ mainPc' = IF MgrIsUp \/ vpnMode # "passive" THEN "serve"
                       ELSE "banner_pause"
          /\ UNCHANGED paused
       \/ /\ mainPc = "banner_pause"
          /\ mainPc' = "serve"
          /\ paused' = TRUE
    /\ UNCHANGED <<vpnMode, autoConnect, ifUp, mon, cb, rec>>
    /\ UNCHANGED <<jobs, plan, eng, gr, activeJob, stopped, disk, pp, cn,
                   nCancels, segFailed>>
    /\ UNCHANGED poolVars
    /\ UNCHANGED auxVars

\* Monitor.checkInterface on a tick that sees a change: isUp = up, then the
\* callback of the transition.
MonitorTick ==
    /\ ~crashed /\ mon.exists /\ mon.ticking /\ cb["monitor"] = "none"
    /\ mon.isUp # ifUp
    /\ mon' = [mon EXCEPT !.isUp = ifUp]
    /\ SetCb("monitor", IF ifUp THEN "up_setif" ELSE "down_pause")
    /\ UNCHANGED <<vpnMode, autoConnect, ifUp, mainPc, rec>>
    /\ UNCHANGED <<poolVars, engVars>>
    /\ UNCHANGED auxVars

\* The callback of goroutine t has returned.
CbReturn(t) ==
    /\ SetCb(t, "none")
    /\ mon' = [mon EXCEPT !.ticking = mon.exists]

\* main.go OnDown: queueMgr.SetPaused(true)
CbDownPause(t) ==
    /\ ~crashed /\ cb[t] = "down_pause"
    /\ paused' = TRUE
    /\ SetCb(t, "down_close")
    /\ UNCHANGED <<vpnMode, autoConnect, ifUp, mainPc, mon, rec>>
    /\ UNCHANGED <<jobs, plan, eng, gr, activeJob, stopped, disk, pp, cn,
                   nCancels, segFailed>>
    /\ UNCHANGED poolVars
    /\ UNCHANGED auxVars

\* The FetchSegment calls that have been made and have not returned.
InFlight == {w \in Workers : wk[w].pc \notin {"idle", "ret"}}

\* main.go OnDown: poolMgr.CloseAll(); in managed mode the monitor's onDown
\* goes on with startReconnectLoop.
CbDownClose(t) ==
    /\ cb[t] = "down_close"
    /\ CloseAll
    /\ CbReturn(t)
    /\ rec' = IF vpnMode = "managed" /\ rec.pc = "off"
              THEN [pc |-> "backoff", attempt |-> 1] ELSE rec
    /\ atDown' = InFlight
    /\ UNCHANGED <<vpnMode, autoConnect, ifUp, mainPc>>
    /\ UNCHANGED <<nReconf, engVars>>
    /\ UNCHANGED <<remote, wr, prog, pw, createdAt, applied, mgr, call>>

\* main.go OnUp: poolMgr.SetVPNInterface(interfaceName)
CbUpSetInterface(t) ==
    /\ cb[t] = "up_setif"
    /\ SetVPNInterface(VpnInterface)
    /\ SetCb(t, "up_update")
    /\ UNCHANGED <<vpnMode, autoConnect, ifUp, mainPc, mon, rec>>
    /\ UNCHANGED <<nReconf, engVars>>
    /\ UNCHANGED auxVars

\* main.go OnUp: poolMgr.UpdateServers(cfg.GetServers())
CbUpUpdateServers(t) ==
    /\ cb[t] = "up_update"
    /\ UpdateServers(EngineServers)
    /\ SetCb(t, "up_resume")
    /\ UNCHANGED <<vpnMode, autoConnect, ifUp, mainPc, mon, rec>>
    /\ UNCHANGED <<nReconf, engVars>>
    /\ UNCHANGED auxVars

\* main.go OnUp: queueMgr.SetPaused(false); engine.Notify()
CbUpResume(t) ==
    /\ ~crashed /\ cb[t] = "up_resume"
    /\ paused' = FALSE
    /\ CbReturn(t)
    /\ UNCHANGED <<vpnMode, autoConnect, ifUp, mainPc, rec>>
    /\ UNCHANGED <<jobs, plan, eng, gr, activeJob, stopped, disk, pp, cn,
                   nCancels, segFailed>>
    /\ UNCHANGED poolVars
    /\ UNCHANGED auxVars

\* startReconnectLoop, one attempt: conn.Disconnect(); conn.Connect(); on
\* success the old monitor is stopped and startMonitorForManaged runs, on
\* failure the next attempt follows until maxAttempts is used up.
ReconnectAttempt ==
    /\ ~crashed /\ rec.pc = "backoff"
    /\ cb["monitor"] = "none" /\ cb["reconnect"] = "none"
    /\ \/ /\ ifUp' = TRUE
          /\ StartMonitor("reconnect", TRUE)
          /\ rec' = RecOff
       \/ /\ ifUp' = FALSE
          /\ rec' = IF rec.attempt < MaxReconnects
                    THEN [rec EXCEPT !.attempt = rec.attempt + 1]
                    ELSE RecOff
          /\ UNCHANGED <<mon, cb>>
    /\ UNCHANGED <<vpnMode, autoConnect, mainPc>>
    /\ UNCHANGED <<poolVars, engVars>>
    /\ UNCHANGED auxVars

\* The environment: the interface goes down, or (an interface that is
\* managed from outside the program) comes up.
IfaceChange ==
    /\ ~crashed
    /\ ifUp \/ vpnMode = "passive"
    /\ ifUp' = ~ifUp
    /\ UNCHANGED <<vpnMode, autoConnect, mainPc, mon, cb, rec>>
    /\ UNCHANGED <<poolVars, engVars>>
    /\ UNCHANGED auxVars

\* --------------------------------------------------- VPN specification
InitVPN ==
    /\ pmIface = ""
    /\ LET r == AddPools(EngineServers, 1, [n \in Names |-> 0], <<>>) IN
       pmPools = r.m /\ pools = r.p
    /\ conns = <<>>
    /\ wk = [w \in Workers |-> IdleWorker]
    /\ ctxDone = FALSE
    /\ crashed = FALSE
    /\ nReconf = 0
    /\ plan = [j \in Jobs |-> << <<2, 1>> >>]
    /\ InitEngineVars
    /\ InitAux
    /\ vpnMode \in {"passive", "managed"}
    /\ autoConnect \in BOOLEAN
    /\ ifUp \in BOOLEAN
    /\ vpnMode = "passive" => autoConnect
    /\ vpnMode = "managed" => ~ifUp
    /\ mainPc = "start"
    /\ mon = NoMonitor
    /\ cb = [t \in Threads |-> "none"]
    /\ rec = RecOff

NextVPN ==
    \/ MainVpnStart
    \/ MainEngineStart
    \/ MainBanner
    \/ MonitorTick
    \/ \E t \in Threads : CbDownPause(t)
    \/ \E t \in Threads : CbDownClose(t)
    \/ \E t \in Threads : CbUpSetInterface(t)
    \/ \E t \in Threads : CbUpUpdateServers(t)
    \/ \E t \in Threads : CbUpResume(t)
    \/ ReconnectAttempt
    \/ IfaceChange
    \/ LoopSelect
    \/ LoopCheckPaused
    \/ LoopGetNext
    \/ PdRegister
    \/ PdStatusDownloading
    \/ PdPrepare
    \/ PdFileLoop
    \/ DfLoop
    \/ DfDispatch
    \/ \E g \in Workers : FetchStep(g)
    \/ \E g \in Workers : SegFinish(g)
    \/ DfAssemble
    \/ PdAfter
    \/ PdStatusProcessing
    \/ PdOnComplete
    \/ \E j \in Jobs : PostProcess(j)

SpecVPN == InitVPN /\ [][NextVPN]_vars

\* ------------------------------------------------- pool specification
\* Any number of callers run FetchSegment against a manager that is being
\* reconfigured; the context they share may be cancelled at any time.

FetchSegmentCall(w) ==
    /\ ~crashed /\ wk[w].pc = "idle"
    /\ SetWk(w, [IdleWorker EXCEPT !.pc = "attempt"])
    /\ UNCHANGED <<pmIface, pmPools, pools, conns, ctxDone, crashed, nReconf>>
    /\ UNCHANGED <<engVars, vpnVars>>
    /\ UNCHANGED auxVars

FetchSegmentReturn(w) ==
    /\ ~crashed /\ wk[w].pc = "ret"
    /\ SetWk(w, IdleWorker)
    /\ UNCHANGED <<pmIface, pmPools, pools, conns, ctxDone, crashed, nReconf>>
    /\ UNCHANGED <<engVars, vpnVars>>
    /\ UNCHANGED auxVars

CancelCtx ==
    /\ ~crashed /\ ~ctxDone
    /\ ctxDone' = TRUE
    /\ UNCHANGED <<pmIface, pmPools, pools, conns, wk, crashed, nReconf>>
    /\ UNCHANGED <<engVars, vpnVars>>
    /\ UNCHANGED auxVars

\* main.go: NewPoolManager("") followed by UpdateServers(cfg.GetServers()).
InitPool ==
    /\ pmIface = ""
    /\ \E servers \in ServerLists :
         LET r == AddPools(servers, 1, [n \in Names |-> 0], <<>>) IN
         pmPools = r.m /\ pools = r.p
    /\ conns = <<>>
    /\ wk = [w \in Workers |-> IdleWorker]
    /\ ctxDone = FALSE
    /\ crashed = FALSE
    /\ nReconf = 0
    /\ plan = [j \in Jobs |-> << <<1>> >>]
    /\ InitEngineVars
    /\ InitAux
    /\ InitVpnQuiet

\* Callers that come back for more, against a manager that is left alone.
NextPool ==
    \/ \E w \in Workers : FetchSegmentCall(w)
    \/ \E w \in Workers : FetchStep(w)
    \/ \E w \in Workers : FetchSegmentReturn(w)
    \/ CancelCtx

SpecPool == InitPool /\ [][NextPool]_vars

\* The server API and the VPN callbacks reconfigure the manager.
Reconfigure ==
    /\ nReconf < MaxReconf
    /\ nReconf' = nReconf + 1
    /\ UNCHANGED <<engVars, vpnVars>>
    /\ UNCHANGED auxVars

MgrUpdateServers(servers) == UpdateServers(servers) /\ Reconfigure

MgrSetVPNInterface(iface) == SetVPNInterface(iface) /\ Reconfigure

MgrCloseAll == CloseAll /\ Reconfigure

\* One FetchSegment call per goroutine, against a manager that is being
\* reconfigured by the VPN callbacks and the server API.
NextPoolMgr ==
    \/ \E w \in Workers : FetchSegmentCall(w)
    \/ \E w \in Workers : FetchStep(w)
    \/ CancelCtx
    \/ \E servers \in ServerLists : MgrUpdateServers(servers)
    \/ \E iface \in Ifaces : MgrSetVPNInterface(iface)
    \/ MgrCloseAll

SpecPoolMgr == InitPool /\ [][NextPoolMgr]_vars


\* ------------------------------------------------ retry specification
\* Scenario S3: two enabled servers, A answers 430 for the article, B serves
\* it; dials succeed unless the caller's context is cancelled.
RetryServers == <<Srv("A", TRUE, 1), Srv("B", TRUE, 60)>>

InitRetry ==
    /\ pmIface = ""
    /\ LET r == AddPools(RetryServers, 1, [n \in Names |-> 0], <<>>) IN
       pmPools = r.m /\ pools = r.p
    /\ conns = <<>>
    /\ wk = [w \in Workers |-> IdleWorker]
    /\ ctxDone = FALSE
    /\ crashed = FALSE
    /\ nReconf = 0
    /\ plan = [j \in Jobs |-> << <<1>> >>]
    /\ InitEngineVars
    /\ InitVpnQuiet
    /\ remote = [n \in Names |-> IF n = "A" THEN "notfound" ELSE "ok"]
    /\ atDown = {}
    /\ wr = "none"
    /\ InitProg
    /\ InitCreated
    /\ InitApplied
    /\ InitMgr
    /\ InitCall

NextRetry ==
    \/ \E w \in Workers : FetchSegmentCall(w)
    \/ \E w \in Workers : FetchStep(w)
    \/ CancelCtx

SpecRetry == InitRetry /\ [][NextRetry]_vars


\* ------------------------------------------------- lock specification
\* One FetchSegment call per goroutine against one server that allows one
\* connection, while the VPN callbacks and the server API call the writers
\* of the manager; a writer waits in pm.mu.Lock() until the readers are gone.
LockServers == <<Srv("A", TRUE, 1)>>
Writers == {"UpdateServers", "SetVPNInterface", "CloseAll"}

InitLock ==
    /\ pmIface = ""
    /\ LET r == AddPools(LockServers, 1, [n \in Names |-> 0], <<>>) IN
       pmPools = r.m /\ pools = r.p
    /\ conns = <<>>
    /\ wk = [w \in Workers |-> IdleWorker]
    /\ ctxDone = FALSE
    /\ crashed = FALSE
    /\ nReconf = 0
    /\ plan = [j \in Jobs |-> << <<1>> >>]
    /\ InitEngineVars
    /\ InitAux
    /\ InitVpnQuiet

\* A writer is called: pm.mu.Lock() is entered.
WriterCall(op) ==
    /\ ~crashed /\ wr = "none"
    /\ nReconf < MaxReconf
    /\ nReconf' = nReconf + 1
    /\ wr' = op
    /\ UNCHANGED <<pmIface, pmPools, pools, conns, wk, ctxDone, crashed>>
    /\ UNCHANGED <<engVars, vpnVars>>
    /\ UNCHANGED <<remote, atDown, prog, pw, createdAt, applied, mgr, call>>

\* The writer has the lock, does its work and returns.
WriterRun ==
    /\ wr # "none"
    /\ IF wr = "CloseAll" THEN CloseAll
       ELSE IF wr = "SetVPNInterface" THEN SetVPNInterface(VpnInterface)
       ELSE UpdateServers(LockServers)
    /\ wr' = "none"
    /\ UNCHANGED <<nReconf, engVars, vpnVars>>
    /\ UNCHANGED <<remote, atDown, prog, pw, createdAt, applied, mgr, call>>

NextLock ==
    \/ \E w \in Workers : FetchSegmentCall(w)
    \/ \E w \in Workers : FetchStep(w)
    \/ CancelCtx
    \/ \E op \in Writers : WriterCall(op)
    \/ WriterRun

\* The Go scheduler runs every goroutine that can take a step; FetchBody
\* ends by its read deadline.  The caller's context need never be cancelled.
SpecLock ==
    /\ InitLock
    /\ [][NextLock]_vars
    /\ \A w \in Workers : WF_vars(FetchStep(w))
    /\ WF_vars(WriterRun)


\* ------------------------------------------------- flap specification
\* Scenario S4: the program has started with the VPN interface up and
\* watched by the monitor (passive mode), OnUp has run; from then on the
\* interface goes down and comes back while the engine works on its queue.
InitFlap ==
    /\ pmIface = VpnInterface
    /\ LET r == AddPools(EngineServers, 1, [n \in Names |-> 0], <<>>) IN
       pmPools = r.m /\ pools = r.p
    /\ conns = <<>>
    /\ wk = [w \in Workers |-> IdleWorker]
    /\ ctxDone = FALSE
    /\ crashed = FALSE
    /\ nReconf = 0
    /\ plan = [j \in Jobs |-> << <<2, 1>> >>]
    /\ InitEngineVars
    /\ InitAux
    /\ InitVpnQuiet

NextFlap ==
    \/ MonitorTick
    \/ \E t \in Threads : CbDownPause(t)
    \/ \E t \in Threads : CbDownClose(t)
    \/ \E t \in Threads : CbUpSetInterface(t)
    \/ \E t \in Threads : CbUpUpdateServers(t)
    \/ \E t \in Threads : CbUpResume(t)
    \/ IfaceChange
    \/ LoopSelect
    \/ LoopCheckPaused
    \/ LoopGetNext
    \/ PdRegister
    \/ PdStatusDownloading
    \/ PdPrepare
    \/ PdFileLoop
    \/ DfLoop
    \/ DfDispatch
    \/ \E g \in Workers : FetchStep(g)
    \/ \E g \in Workers : SegFinish(g)
    \/ DfAssemble
    \/ PdAfter
    \/ PdStatusProcessing
    \/ PdOnComplete
    \/ \E j \in Jobs : PostProcess(j)

SpecFlap == InitFlap /\ [][NextFlap]_vars


\* --------------------------------------------- progress specification
\* The tail of the segment goroutines of one job whose NZB has TotalSegments
\* segments, every fetch and decode succeeding; the semaphore admits
\* NumWorkers goroutines at a time.
TotalSegments == 11
ProgressEvery == 10
\* len(decoded.Data) of a segment
SegmentBytes == {1, 2}

SetPw(w, r) == pw' = [pw EXCEPT ![w] = r]

ProgFrame ==
    /\ UNCHANGED <<poolVars, engVars, vpnVars>>
    /\ UNCHANGED <<remote, atDown, wr, createdAt, applied, mgr, call>>

\* results[idx] = decoded.Data; totalBytes.Add(int64(len(decoded.Data)))
ProgAddBytes(w) ==
    /\ pw[w].pc = "idle" /\ prog.started < TotalSegments
    /\ \E n \in SegmentBytes :
         prog' = [prog EXCEPT !.started = @ + 1, !.totalBytes = @ + n]
    /\ SetPw(w, [pw[w] EXCEPT !.pc = "add_done"])
    /\ ProgFrame

\* done := int(totalDone.Add(1)); if done%10 == 0 || done == dl.TotalSegments
ProgAddDone(w) ==
    /\ pw[w].pc = "add_done"
    /\ prog' = [prog EXCEPT !.totalDone = @ + 1]
    /\ LET done == prog.totalDone + 1 IN
       SetPw(w, IF done % ProgressEvery = 0 \/ done = TotalSegments
                THEN [pw[w] EXCEPT !.pc = "load", !.done = done]
                ELSE [pc |-> "idle", done |-> 0, bytes |-> 0])
    /\ ProgFrame

\* the argument totalBytes.Load() of the UpdateProgress call
ProgLoad(w) ==
    /\ pw[w].pc = "load"
    /\ SetPw(w, [pw[w] EXCEPT !.pc = "write", !.bytes = prog.totalBytes])
    /\ UNCHANGED prog
    /\ ProgFrame

\* manager.go UpdateProgress: UPDATE downloads SET downloaded_bytes = ?,
\* done_segments = ? WHERE id = ?
ProgUpdateProgress(w) ==
    /\ pw[w].pc = "write"
    /\ prog' = [prog EXCEPT !.downloadedBytes = pw[w].bytes,
                            !.doneSegments = pw[w].done]
    /\ SetPw(w, [pc |-> "idle", done |-> 0, bytes |-> 0])
    /\ ProgFrame

InitProgress ==
    /\ pmIface = ""
    /\ LET r == AddPools(EngineServers, 1, [n \in Names |-> 0], <<>>) IN
       pmPools = r.m /\ pools = r.p
    /\ conns = <<>>
    /\ wk = [w \in Workers |-> IdleWorker]
    /\ ctxDone = FALSE
    /\ crashed = FALSE
    /\ nReconf = 0
    /\ plan = [j \in Jobs |-> << <<1>> >>]
    /\ InitEngineVars
    /\ InitAux
    /\ InitVpnQuiet

NextProgress ==
    \/ \E w \in Workers : ProgAddBytes(w)
    \/ \E w \in Workers : ProgAddDone(w)
    \/ \E w \in Workers : ProgLoad(w)
    \/ \E w \in Workers : ProgUpdateProgress(w)

SpecProgress == InitProgress /\ [][NextProgress]_vars


\* ------------------------------------------------ queue specification
\* Downloads are added through the API while the engine works: up to
\* NumQueued rows, inserted in any order of their ids; the NZB of job 1 has
\* one file of two segments, the others one file of one segment.
NumQueued == 3
QJobs == 1..NumQueued

\* time.Now() of the next INSERT: not before the newest row's created_at.
Now(ts) ==
    LET used == {ts[j] : j \in DOMAIN jobs} IN
    IF used = {} THEN {1}
    ELSE LET newest == CHOOSE x \in used : \A y \in used : y <= x
         IN  {newest, newest + 1}

\* manager.go Add: INSERT INTO downloads (..., status, ..., created_at)
\* VALUES (..., 'queued', ..., time.Now())
Add(id) ==
    /\ ~crashed /\ id \notin DOMAIN jobs
    /\ jobs' = jobs @@ (id :> [status |-> "queued", err |-> ""])
    /\ \E now \in Now(createdAt) : createdAt' = [createdAt EXCEPT ![id] = now]
    /\ UNCHANGED <<plan, paused, eng, gr, activeJob, stopped, disk, pp, cn,
                   nCancels, segFailed>>
    /\ UNCHANGED <<poolVars, vpnVars>>
    /\ UNCHANGED <<remote, atDown, wr, prog, pw, applied, mgr, call>>

InitQueue ==
    /\ pmIface = ""
    /\ LET r == AddPools(EngineServers, 1, [n \in Names |-> 0], <<>>) IN
       pmPools = r.m /\ pools = r.p
    /\ conns = <<>>
    /\ wk = [w \in Workers |-> IdleWorker]
    /\ ctxDone = FALSE
    /\ crashed = FALSE
    /\ nReconf = 0
    /\ plan = [j \in QJobs |-> IF j = 1 THEN << <<1, 2>> >> ELSE << <<1>> >>]
    /\ jobs = <<>>
    /\ paused = FALSE
    /\ eng = IdleEngine
    /\ gr = [w \in Workers |-> 0]
    /\ activeJob = 0
    /\ stopped = FALSE
    /\ disk = [j \in QJobs |-> [f \in 1..Len(plan[j]) |-> NoFile]]
    /\ pp = [j \in QJobs |-> "none"]
    /\ cn = [pc |-> "idle", id |-> 0]
    /\ nCancels = 0
    /\ segFailed = {}
    /\ remote = [n \in Names |-> "any"] /\ atDown = {} /\ wr = "none"
    /\ InitProg
    /\ createdAt = [j \in QJobs |-> 0]
    /\ InitApplied
    /\ InitMgr
    /\ InitCall
    /\ InitVpnQuiet

NextQueue ==
    \/ \E id \in QJobs : Add(id)
    \/ LoopSelect
    \/ LoopCheckPaused
    \/ LoopGetNext
    \/ PdRegister
    \/ PdStatusDownloading
    \/ PdPrepare
    \/ PdFileLoop
    \/ DfLoop
    \/ DfDispatch
    \/ \E g \in Workers : FetchStep(g)
    \/ \E g \in Workers : SegFinish(g)
    \/ DfAssemble
    \/ PdAfter
    \/ PdStatusProcessing
    \/ PdOnComplete
    \/ \E j \in QJobs : PostProcess(j)

SpecQueue == InitQueue /\ [][NextQueue]_vars


\* --------------------------------------------- server list specification
\* The server API (addServer, updateServer, deleteServer) hands the edited
\* list to UpdateServers while goroutines fetch one segment each.  Names are
\* unique within a list.
ApiLists ==
    { <<>>,
      <<Srv("A", TRUE, 1)>>,
      <<Srv("A", TRUE, 1), Srv("B", TRUE, 2)>>,
      <<Srv("A", FALSE, 1), Srv("B", TRUE, 2)>>,
      <<Srv("A", TRUE, 2), Srv("B", FALSE, 2)>> }

EnabledNames(servers) ==
    {servers[i].Name : i \in {j \in DOMAIN servers : servers[j].Enabled}}

SetApplied(a) ==
    /\ applied' = a
    /\ UNCHANGED <<remote, atDown, wr, prog, pw, createdAt, mgr, call>>
    /\ UNCHANGED <<engVars, vpnVars>>

ApiUpdateServers(servers) ==
    /\ nReconf < MaxReconf
    /\ UpdateServers(servers)
    /\ nReconf' = nReconf + 1
    /\ SetApplied([valid |-> TRUE, servers |-> servers, since |-> {}])

ApiFetchCall(w) ==
    /\ ~crashed /\ wk[w].pc = "idle"
    /\ SetWk(w, [IdleWorker EXCEPT !.pc = "attempt"])
    /\ UNCHANGED <<pmIface, pmPools, pools, conns, ctxDone, crashed, nReconf>>
    /\ SetApplied([applied EXCEPT !.since = IF applied.valid THEN @ \cup {w} ELSE @])

NextServers ==
    \/ \E servers \in ApiLists : ApiUpdateServers(servers)
    \/ \E w \in Workers : ApiFetchCall(w)
    \/ \E w \in Workers : FetchStep(w)

SpecServers == InitPool /\ [][NextServers]_vars


\* --------------------------------------------- VPN manager Stop (managed)
\* vpn.Manager in managed mode: Stop against the reconnect worker and the
\* monitors' OnDown callbacks.  Only mgr changes.
SetMgr(m) ==
    /\ mgr' = m
    /\ UNCHANGED <<poolVars, engVars, vpnVars>>
    /\ UNCHANGED <<remote, atDown, wr, prog, pw, createdAt, applied, call>>

\* startManaged: the initial Connect failed and startReconnectLoop was called.
MgrRetrying ==
    [ MgrConnected EXCEPT !.wg = 1, !.reconnecting = TRUE,
                          !.loop = [pc |-> "arm", attempt |-> 1],
                          !.monitor = 0, !.up = FALSE,
                          !.mons = [i \in Monitors |-> NoMon] ]

\* The environment takes the tunnel's interface down.
TunnelDown ==
    /\ mgr.up
    /\ SetMgr([mgr EXCEPT !.up = FALSE])

\* Monitor.Start's goroutine: case <-ticker.C: checkInterface().  A monitor
\* whose stopCh is closed may still take the ticker case of the select.
Ticker(i) ==
    /\ mgr.mons[i].state \in {"running", "stopped"} /\ mgr.mons[i].cb = "none"
    /\ mgr.mons[i].isUp # mgr.up
    /\ SetMgr([mgr EXCEPT !.mons[i].isUp = mgr.up,
                          !.mons[i].cb = IF mgr.up THEN "none" ELSE "down_fn"])

\* Monitor.Start's goroutine: case <-m.stopCh: return
TickerExit(i) ==
    /\ mgr.mons[i].state = "stopped" /\ mgr.mons[i].cb = "none"
    /\ SetMgr([mgr EXCEPT !.mons[i].state = "exited"])

\* startMonitorForManaged's OnDown: fn() (the callback registered by main)
OnDownFn(i) ==
    /\ mgr.mons[i].cb = "down_fn"
    /\ SetMgr([mgr EXCEPT !.mons[i].cb = "down_start"])

\* startReconnectLoop: if m.reconnecting { return }; m.reconnecting = true
StartReconnectFlag(i) ==
    /\ mgr.mons[i].cb = "down_start"
    /\ SetMgr(IF mgr.reconnecting
              THEN [mgr EXCEPT !.mons[i].cb = "none"]
              ELSE [mgr EXCEPT !.reconnecting = TRUE, !.mons[i].cb = "down_add"])

\* startReconnectLoop: m.wg.Add(1); go func() { ... }()
StartReconnectGo(i) ==
    /\ mgr.mons[i].cb = "down_add"
    /\ SetMgr([mgr EXCEPT !.wg = @ + 1, !.mons[i].cb = "none",
                          !.loop = [pc |-> "arm", attempt |-> 1]])

\* The worker enters select { case <-m.ctx.Done(): return; case
\* <-time.After(backoff): }: with the context done it returns at once (the
\* timer has just been set), otherwise it blocks.
ReconnectSelect ==
    /\ mgr.loop.pc = "arm"
    /\ SetMgr([mgr EXCEPT !.loop.pc = IF mgr.ctxDone THEN "exit" ELSE "waiting"])

\* The blocked select: the context is cancelled.
ReconnectCancelled ==
    /\ mgr.loop.pc = "waiting" /\ mgr.ctxDone
    /\ SetMgr([mgr EXCEPT !.loop.pc = "exit"])

\* The blocked select: the timer fires (also when the context has been
\* cancelled in the meantime: both cases ready, either is taken).
ReconnectTimer ==
    /\ mgr.loop.pc = "waiting"
    /\ SetMgr([mgr EXCEPT !.loop.pc = "stale"])

\* conn.Disconnect() of stale state
ReconnectStale ==
    /\ mgr.loop.pc = "stale"
    /\ SetMgr([mgr EXCEPT !.loop.pc = "connect", !.up = FALSE])

\* conn.Connect(m.ctx) is called.
ReconnectConnect ==
    /\ mgr.loop.pc = "connect"
    /\ SetMgr([mgr EXCEPT !.loop.pc = "connecting"])

\* conn.Connect returns: nil, or an error (backoff doubled, next attempt, the
\* worker gives up after maxAttempts).
ReconnectResult ==
    /\ mgr.loop.pc = "connecting"
    /\ \/ /\ mgr.monitor < NumMonitors
          /\ SetMgr([mgr EXCEPT !.loop.pc = "install", !.up = TRUE])
       \/ SetMgr([mgr EXCEPT !.loop = IF mgr.loop.attempt < MaxReconnects
                                      THEN [pc |-> "arm", attempt |-> @.attempt + 1]
                                      ELSE [pc |-> "exit", attempt |-> @.attempt]])

\* oldMon.Stop(); m.startMonitorForManaged(ifName); return
ReconnectInstall ==
    /\ mgr.loop.pc = "install"
    /\ LET old == mgr.monitor
           new == mgr.monitor + 1
           olds == [i \in Monitors |->
                         IF i = old /\ mgr.mons[i].state = "running"
                         THEN [mgr.mons[i] EXCEPT !.state = "stopped"]
                         ELSE mgr.mons[i]]
       IN  SetMgr([mgr EXCEPT !.loop.pc = "exit", !.monitor = new,
                              !.mons = [olds EXCEPT ![new] =
                                 [state |-> "running", isUp |-> mgr.up, cb |-> "none"]]])

\* The worker's deferred m.reconnecting = false
ReconnectExit ==
    /\ mgr.loop.pc = "exit"
    /\ SetMgr([mgr EXCEPT !.loop = [pc |-> "off", attempt |-> 0],
                          !.reconnecting = FALSE, !.leaving = @ + 1])

\* The worker's deferred m.wg.Done()
ReconnectDone ==
    /\ mgr.leaving > 0
    /\ SetMgr([mgr EXCEPT !.leaving = @ - 1, !.wg = @ - 1])

\* Manager.Stop: m.cancel()
StopCancel ==
    /\ mgr.stop = "idle"
    /\ SetMgr([mgr EXCEPT !.stop = "wait", !.ctxDone = TRUE])

\* Mutant: Stop goes on without waiting for the reconnect worker.
StopWait_NoWait ==
    /\ mgr.stop = "wait"
    /\ SetMgr([mgr EXCEPT !.stop = "read"])

\* Manager.Stop: m.wg.Wait()
StopWait ==
    /\ mgr.stop = "wait" /\ mgr.wg = 0
    /\ SetMgr([mgr EXCEPT !.stop = "read"])

\* Manager.Stop: mon := m.monitor; conn := m.connector under m.mu.RLock
StopRead ==
    /\ mgr.stop = "read"
    /\ SetMgr([mgr EXCEPT !.stop = "monstop", !.stopMon = mgr.monitor])

\* Manager.Stop: if mon != nil { mon.Stop() }
StopMonitor ==
    /\ mgr.stop = "monstop"
    /\ SetMgr([mgr EXCEPT !.stop = "disconnect",
                          !.mons = IF mgr.stopMon # 0 /\ mgr.mons[mgr.stopMon].state = "running"
                                   THEN [@ EXCEPT ![mgr.stopMon].state = "stopped"]
                                   ELSE @])

\* Manager.Stop: conn.Disconnect() is called, and returns.
StopDisconnect ==
    /\ mgr.stop = "disconnect"
    /\ SetMgr([mgr EXCEPT !.stop = "disconnecting", !.up = FALSE])

StopReturn ==
    /\ mgr.stop = "disconnecting"
    /\ SetMgr([mgr EXCEPT !.stop = "done"])

\* Manager.Start has returned, either way of startManaged.
InitStop ==
    /\ pmIface = ""
    /\ LET r == AddPools(EngineServers, 1, [n \in Names |-> 0], <<>>) IN
       pmPools = r.m /\ pools = r.p
    /\ conns = <<>>
    /\ wk = [w \in Workers |-> IdleWorker]
    /\ ctxDone = FALSE
    /\ crashed = FALSE
    /\ nReconf = 0
    /\ plan = [j \in Jobs |-> << <<1>> >>]
    /\ InitEngineVars
    /\ InitVpnQuiet
    /\ remote = [n \in Names |-> "any"] /\ atDown = {} /\ wr = "none"
    /\ InitProg
    /\ InitCreated
    /\ InitApplied
    /\ mgr \in {MgrConnected, MgrRetrying}
    /\ InitCall

NextStop ==
    \/ TunnelDown
    \/ \E i \in Monitors : Ticker(i)
    \/ \E i \in Monitors : TickerExit(i)
    \/ \E i \in Monitors : OnDownFn(i)
    \/ \E i \in Monitors : StartReconnectFlag(i)
    \/ \E i \in Monitors : StartReconnectGo(i)
    \/ ReconnectSelect
    \/ ReconnectCancelled
    \/ ReconnectTimer
    \/ ReconnectStale
    \/ ReconnectConnect
    \/ ReconnectResult
    \/ ReconnectInstall
    \/ ReconnectExit
    \/ ReconnectDone
    \/ StopCancel
    \/ StopWait
    \/ StopRead
    \/ StopMonitor
    \/ StopDisconnect
    \/ StopReturn

SpecStop == InitStop /\ [][NextStop]_vars


\* ------------------------------------------------------------------ yEnc
\* Articles, lines and payloads are sequences of bytes (0..255); a uint32 is
\* the pair <<high 16 bits, low 16 bits>>.
Drop(s, n) == SubSeq(s, n + 1, Len(s))
Take(s, n) == SubSeq(s, 1, n)

\* bytes.HasPrefix
HasPrefix(s, p) == Len(s) >= Len(p) /\ Take(s, Len(p)) = p

\* strings.Index, counted from 1; 0 when sub does not occur.
Index(s, sub) ==
    LET at == {i \in 1..(Len(s) - Len(sub) + 1) : SubSeq(s, i, i + Len(sub) - 1) = sub} IN
    IF at = {} THEN 0 ELSE CHOOSE i \in at : \A j \in at : i <= j

RECURSIVE Split(_, _)
\* bytes.Split(s, sep) for a separator of one byte.
Split(s, sep) ==
    LET i == Index(s, <<sep>>) IN
    IF i = 0 THEN <<s>> ELSE <<Take(s, i - 1)>> \o Split(Drop(s, i), sep)

RECURSIVE TrimRightCR(_)
\* bytes.TrimRight(line, "\r")
TrimRightCR(line) ==
    IF line # <<>> /\ line[Len(line)] = 13 THEN TrimRightCR(Take(line, Len(line) - 1))
    ELSE line

\* unicode.IsSpace on a byte of ASCII text
IsSpace(b) == b \in {9, 10, 11, 12, 13, 32}

RECURSIVE TrimSpace(_)
\* strings.TrimSpace
TrimSpace(s) ==
    IF s # <<>> /\ IsSpace(s[1]) THEN TrimSpace(Drop(s, 1))
    ELSE IF s # <<>> /\ IsSpace(s[Len(s)]) THEN TrimSpace(Take(s, Len(s) - 1))
    ELSE s

RECURSIVE Fields(_, _)
\* strings.Fields(s): word is the field being read.
Fields(s, word) ==
    IF s = <<>> THEN (IF word = <<>> THEN <<>> ELSE <<word>>)
    ELSE IF IsSpace(s[1])
    THEN (IF word = <<>> THEN <<>> ELSE <<word>>) \o Fields(Drop(s, 1), <<>>)
    ELSE Fields(Drop(s, 1), Append(word, s[1]))

KeyName == <<110, 97, 109, 101>>       \* "name"
KeyCrc32 == <<99, 114, 99, 51, 50>>     \* "crc32"
KeyPcrc32 == <<112, 99, 114, 99, 51, 50>>   \* "pcrc32"

RECURSIVE KeyValues(_)
\* parseKeyValues: the loop over strings.Fields(s); parts without '=' or
\* with an empty key are skipped.
KeyValues(parts) ==
    IF parts = <<>> THEN <<>>
    ELSE LET part  == parts[1]
             eqIdx == Index(part, <<61>>) IN
         (IF eqIdx > 1 THEN << <<Take(part, eqIdx - 1), Drop(part, eqIdx)>> >> ELSE <<>>)
         \o KeyValues(Drop(parts, 1))

\* parseKeyValues(s): the pairs in the order the map is assigned.
parseKeyValues(s0) ==
    LET s       == TrimSpace(s0)
        nameIdx == Index(s, <<32, 110, 97, 109, 101, 61>>) IN            \* " name="
    IF nameIdx > 0
    THEN << <<KeyName, Drop(s, nameIdx + 5)>> >> \o KeyValues(Fields(Take(s, nameIdx - 1), <<>>))
    ELSE IF HasPrefix(s, <<110, 97, 109, 101, 61>>)                   \* "name="
    THEN << <<KeyName, Drop(s, 5)>> >>
    ELSE KeyValues(Fields(s, <<>>))

\* v, ok := parts[key]
Has(parts, key) == \E i \in DOMAIN parts : parts[i][1] = key
Value(parts, key) ==
    LET i == CHOOSE i \in DOMAIN parts :
               parts[i][1] = key /\ \A j \in DOMAIN parts : parts[j][1] = key => j <= i
    IN  parts[i][2]

\* The value of a hexadecimal digit, 16 for any other byte.
HexDigit(b) ==
    IF b \in 48..57 THEN b - 48
    ELSE IF b \in 97..102 THEN b - 87
    ELSE IF b \in 65..70 THEN b - 55
    ELSE 16

RECURSIVE ParseHex(_, _)
\* The digits of v folded into acc; <<65536, 0>> once the value passes 2^32.
ParseHex(v, acc) ==
    IF v = <<>> \/ acc[1] = 65536 THEN acc
    ELSE IF acc[1] >= 4096 THEN <<65536, 0>>
    ELSE ParseHex(Drop(v, 1),
                  <<acc[1] * 16 + (acc[2] \div 4096), (acc[2] % 4096) * 16 + HexDigit(v[1])>>)

\* val, _ := strconv.ParseUint(v, 16, 32); uint32(val): 0 on a syntax error,
\* the maximum on a range error.
ParseUint(v) ==
    IF v = <<>> \/ \E i \in DOMAIN v : HexDigit(v[i]) = 16 THEN <<0, 0>>
    ELSE LET r == ParseHex(v, <<0, 0>>) IN
         IF r[1] = 65536 THEN <<65535, 65535>> ELSE r

RECURSIVE Xor(_, _)
\* a ^ b
Xor(a, b) ==
    IF a = 0 THEN b ELSE IF b = 0 THEN a
    ELSE (((a % 2) + (b % 2)) % 2) + 2 * Xor(a \div 2, b \div 2)

RECURSIVE CrcBits(_, _)
\* n steps of the reflected CRC-32 (polynomial 0xEDB88320).
CrcBits(crc, n) ==
    IF n = 0 THEN crc
    ELSE LET sh == <<crc[1] \div 2, (crc[2] \div 2) + (crc[1] % 2) * 32768>> IN
         CrcBits(IF crc[2] % 2 = 1 THEN <<Xor(sh[1], 60856), Xor(sh[2], 33568)>> ELSE sh,
                 n - 1)

RECURSIVE CrcUpdate(_, _)
CrcUpdate(crc, data) ==
    IF data = <<>> THEN crc
    ELSE CrcUpdate(CrcBits(<<crc[1], Xor(crc[2], data[1])>>, 8), Drop(data, 1))

\* crc32.ChecksumIEEE
ChecksumIEEE(data) ==
    LET c == CrcUpdate(<<65535, 65535>>, data) IN <<65535 - c[1], 65535 - c[2]>>

\* parseYBeginLine: result.Name (size, line, part, total are stored in the
\* result and not read again).
parseYBeginLine(line, result) ==
    LET parts == parseKeyValues(Drop(line, 8)) IN
    IF Has(parts, KeyName) THEN [result EXCEPT !.Name = Value(parts, KeyName)] ELSE result

\* parseYEndLine
parseYEndLine(line, result) ==
    LET parts == parseKeyValues(Drop(line, 6))
        r1    == IF Has(parts, KeyCrc32)
                 THEN [result EXCEPT !.CRC32 = ParseUint(Value(parts, KeyCrc32))]
                 ELSE result
    IN  IF Has(parts, KeyPcrc32)
        THEN [r1 EXCEPT !.PartCRC = ParseUint(Value(parts, KeyPcrc32))]
        ELSE r1

RECURSIVE DecodeLine(_, _)
\* Mutant: '=' is decoded like any other byte.
DecodeLine_NoEscape(line, i) ==
    IF i > Len(line) THEN <<>>
    ELSE <<(line[i] + 256 - 42) % 256>> \o DecodeLine(line, i + 1)

\* decodeYEncData: the inner loop over one line, from index i.
DecodeLine(line, i) ==
    IF i > Len(line) THEN <<>>
    ELSE IF line[i] = 61 /\ i + 1 <= Len(line)
    THEN <<(line[i + 1] + 512 - 64 - 42) % 256>> \o DecodeLine(line, i + 2)
    ELSE <<(line[i] + 256 - 42) % 256>> \o DecodeLine(line, i + 1)

RECURSIVE decodeYEncData(_)
decodeYEncData(lines) ==
    IF lines = <<>> THEN <<>>
    ELSE DecodeLine(lines[1], 1) \o decodeYEncData(Drop(lines, 1))

StrYBegin == <<61, 121, 98, 101, 103, 105, 110, 32>>   \* "=ybegin "
StrYPart == <<61, 121, 112, 97, 114, 116, 32>>     \* "=ypart "
StrYEnd == <<61, 121, 101, 110, 100, 32>>       \* "=yend "

RECURSIVE ScanLines(_, _)
\* DecodeYEnc: the loop over the lines of the article.
ScanLines(lines, st) ==
    IF lines = <<>> THEN st
    ELSE LET line == TrimRightCR(lines[1])
             rest == Drop(lines, 1) IN
         IF HasPrefix(line, StrYBegin)
         THEN ScanLines(rest, [st EXCEPT !.inData = TRUE,
                                         !.result = parseYBeginLine(line, st.result)])
         ELSE IF HasPrefix(line, StrYPart)
         THEN ScanLines(rest, [st EXCEPT !.hasYBeginPart = TRUE])
         ELSE IF HasPrefix(line, StrYEnd)
         THEN ScanLines(rest, [st EXCEPT !.inData = FALSE,
                                         !.result = parseYEndLine(line, st.result)])
         ELSE IF st.inData
         THEN ScanLines(rest, [st EXCEPT !.dataLines = Append(@, line)])
         ELSE ScanLines(rest, st)

\* DecodeYEnc(data): the part and a nil error, or the error.
DecodeYEnc(data) ==
    LET st == ScanLines(Split(data, 10),
                        [inData |-> FALSE, hasYBeginPart |-> FALSE, dataLines |-> <<>>,
                         result |-> [Name |-> <<>>, CRC32 |-> <<0, 0>>, PartCRC |-> <<0, 0>>]])
        decoded == decodeYEncData(st.dataLines)
        actual  == ChecksumIEEE(decoded)
    IN  IF st.result.Name = <<>>
        THEN [err |-> "no =ybegin header found", Data |-> <<>>]
        ELSE IF st.result.PartCRC # <<0, 0>>
        THEN (IF actual # st.result.PartCRC
              THEN [err |-> "part CRC32 mismatch", Data |-> <<>>]
              ELSE [err |-> "", Data |-> decoded])
        ELSE IF st.result.CRC32 # <<0, 0>> /\ ~st.hasYBeginPart
        THEN (IF actual # st.result.CRC32
              THEN [err |-> "CRC32 mismatch", Data |-> <<>>]
              ELSE [err |-> "", Data |-> decoded])
        ELSE [err |-> "", Data |-> decoded]

RECURSIVE yencEncode(_)
\* yenc_test.go yencEncode
yencEncode(data) ==
    IF data = <<>> THEN <<>>
    ELSE LET encoded == (data[1] + 42) % 256 IN
         (IF encoded \in {0, 10, 13, 61} THEN <<61, (encoded + 64) % 256>> ELSE <<encoded>>)
         \o yencEncode(Drop(data, 1))

HexChars == <<48, 49, 50, 51, 52, 53, 54, 55, 56, 57, 97, 98, 99, 100, 101, 102>>   \* "0123456789abcdef"
\* fmt.Sprintf("%08x", crc)
crc32hex(crc) ==
    LET h(x) == <<HexChars[(x \div 4096) + 1], HexChars[((x \div 256) % 16) + 1],
                  HexChars[((x \div 16) % 16) + 1], HexChars[(x % 16) + 1]>>
    IN  h(crc[1]) \o h(crc[2])


\* ------------------------------------------------ yEnc specification
MaxLen == 3
\* Payload bytes of the longer payloads: those whose encoding is escaped
\* (214, 224, 227, 19), whose encoding is '*', '@' and 'y' (0, 22, 79).
SomeBytes == {214, 224, 227, 19, 0, 22, 79}

RECURSIVE SeqsUpTo(_, _)
SeqsUpTo(S, n) ==
    IF n = 0 THEN {<<>>}
    ELSE LET shorter == SeqsUpTo(S, n - 1) IN
         shorter \cup {Append(s, b) : s \in shorter, b \in S}

Payloads == {<<b>> : b \in 0..255} \cup SeqsUpTo(SomeBytes, MaxLen)

\* What the =yend line says for crc32 or pcrc32: nothing, the CRC of the
\* payload, or another 32-bit value.
Trailers == {"absent", "correct", "00000000", "deadbeef"}

TrailerValue(kind, payload) ==
    IF kind = "correct" THEN ChecksumIEEE(payload)
    ELSE IF kind = "deadbeef" THEN <<57005, 48879>>
    ELSE <<0, 0>>

TrailerField(key, kind, payload) ==
    IF kind = "absent" THEN <<>>
    ELSE <<32>> \o key \o <<61>> \o crc32hex(TrailerValue(kind, payload))

\* yenc_test.go: the article of TestDecodeYEncSinglePart, or of
\* TestDecodeYEncMultiPart with its =ypart line.
Article(form, pcrc, crc, payload) ==
    (IF form = "single"
     THEN <<61, 121, 98, 101, 103, 105, 110, 32, 108, 105, 110, 101, 61, 49, 50, 56, 32, 115, 105, 122, 101, 61, 51, 32, 110, 97, 109, 101, 61, 116, 46, 98, 105, 110>> \o <<13, 10>>
     ELSE <<61, 121, 98, 101, 103, 105, 110, 32, 112, 97, 114, 116, 61, 49, 32, 116, 111, 116, 97, 108, 61, 51, 32, 108, 105, 110, 101, 61, 49, 50, 56, 32, 115, 105, 122, 101, 61, 57, 32, 110, 97, 109, 101, 61, 116, 46, 98, 105, 110>> \o <<13, 10>>
          \o <<61, 121, 112, 97, 114, 116, 32, 98, 101, 103, 105, 110, 61, 49, 32, 101, 110, 100, 61, 51>> \o <<13, 10>>)
    \o yencEncode(payload) \o <<13, 10>>
    \o <<61, 121, 101, 110, 100, 32, 115, 105, 122, 101, 61, 51>> \o TrailerField(KeyPcrc32, pcrc, payload)
    \o TrailerField(KeyCrc32, crc, payload) \o <<13, 10>>

SetCall(c) ==
    /\ call' = c
    /\ UNCHANGED <<poolVars, engVars, vpnVars>>
    /\ UNCHANGED <<remote, atDown, wr, prog, pw, createdAt, applied, mgr>>

\* The poster encodes the payload and wraps it.
Post(form, pcrc, crc) ==
    /\ call.pc = "payload"
    /\ SetCall([call EXCEPT !.pc = "article", !.form = form, !.pcrc = pcrc, !.crc = crc,
                            !.data = Article(form, pcrc, crc, call.payload)])

\* downloadFile: part, err := DecodeYEnc(data)
Decode ==
    /\ call.pc = "article"
    /\ SetCall([call EXCEPT !.pc = "decoded", !.out = DecodeYEnc(call.data)])

InitYenc ==
    /\ pmIface = ""
    /\ LET r == AddPools(EngineServers, 1, [n \in Names |-> 0], <<>>) IN
       pmPools = r.m /\ pools = r.p
    /\ conns = <<>>
    /\ wk = [w \in Workers |-> IdleWorker]
    /\ ctxDone = FALSE
    /\ crashed = FALSE
    /\ nReconf = 0
    /\ plan = [j \in Jobs |-> << <<1>> >>]
    /\ InitEngineVars
    /\ InitVpnQuiet
    /\ remote = [n \in Names |-> "any"] /\ atDown = {} /\ wr = "none"
    /\ InitProg
    /\ InitCreated
    /\ InitApplied
    /\ InitMgr
    /\ \E p \in Payloads :
         call = [pc |-> "payload", payload |-> p, form |-> "", pcrc |-> "", crc |-> "",
                 data |-> <<>>, out |-> [err |-> "", Data |-> <<>>]]

NextYenc ==
    \/ \E form \in {"single", "multi"}, pcrc \in Trailers, crc \in Trailers :
         Post(form, pcrc, crc)
    \/ Decode

SpecYenc == InitYenc /\ [][NextYenc]_vars


\* ------------------------------------------------------------ nzb.Parse
\* What xml.Decoder.Decode makes of the input: an error (malformed XML, a
\* root element that is not <nzb>, an attribute that is not a number), or
\* the files of the <nzb> element, each the message-ids (the character
\* data) of its <segment> elements.
MaxFiles == 2
MaxSegments == 2
MessageIDs == {"", " ", "part1@example.com"}

Files == SeqsUpTo(SeqsUpTo(MessageIDs, MaxSegments), MaxFiles)
Documents == [decodes : BOOLEAN, Files : Files]

RECURSIVE Validate(_, _)
\* Mutant: the message-ids are not looked at.
Validate_IdsUnchecked(files, i) ==
    IF i > Len(files) THEN ""
    ELSE IF Len(files[i]) = 0 THEN "file has no segments"
    ELSE Validate(files, i + 1)

\* Parse: the loop "Validate segments" from file i on.
Validate(files, i) ==
    IF i > Len(files) THEN ""
    ELSE IF Len(files[i]) = 0 THEN "file has no segments"
    ELSE IF \E j \in DOMAIN files[i] : files[i][j] = "" THEN "segment has empty message ID"
    ELSE Validate(files, i + 1)

\* nzb.Parse: (&nzb, nil) or (nil, err)
Parse(doc) ==
    LET none == [nzb |-> <<>>, isNil |-> TRUE] IN
    IF ~doc.decodes THEN none @@ [err |-> "decoding NZB XML"]
    ELSE IF Len(doc.Files) = 0 THEN none @@ [err |-> "NZB contains no files"]
    ELSE IF Validate(doc.Files, 1) # "" THEN none @@ [err |-> Validate(doc.Files, 1)]
    ELSE [nzb |-> doc.Files, isNil |-> FALSE, err |-> ""]

\* processDownload: nzbFile, err := nzb.ParseBytes(dl.NZBData)
ParseBytes ==
    /\ call.pc = "document"
    /\ SetCall([call EXCEPT !.pc = "parsed", !.out = Parse(call.doc)])

InitParse ==
    /\ pmIface = ""
    /\ LET r == AddPools(EngineServers, 1, [n \in Names |-> 0], <<>>) IN
       pmPools = r.m /\ pools = r.p
    /\ conns = <<>>
    /\ wk = [w \in Workers |-> IdleWorker]
    /\ ctxDone = FALSE
    /\ crashed = FALSE
    /\ nReconf = 0
    /\ plan = [j \in Jobs |-> << <<1>> >>]
    /\ InitEngineVars
    /\ InitVpnQuiet
    /\ remote = [n \in Names |-> "any"] /\ atDown = {} /\ wr = "none"
    /\ InitProg
    /\ InitCreated
    /\ InitApplied
    /\ InitMgr
    /\ \E doc \in Documents :
         call = [pc |-> "document", doc |-> doc,
                 out |-> [nzb |-> <<>>, isNil |-> TRUE, err |-> ""]]

NextParse == ParseBytes

SpecParse == InitParse /\ [][NextParse]_vars


\* ------------------------------------------- downloadFile, goroutine by
\* goroutine.  The file loop of processDownload and downloadFile with the
\* channel sem and the WaitGroup wg as counters and one goroutine per
\* segment index, whatever the number of slots: the goroutine's body, its
\* deferred <-sem and its deferred wg.Done() are separate steps.

\* Files of the job.
NumFiles == 2
\* Segments of every file: one more than there are slots.
DfSegments == NumWorkers + 1
Segs == 1..DfSegments

\* The locals of downloadFile at its head: results, downloadErr, sem, wg.
DfLocals(c) ==
    [c EXCEPT !.pc = "loop", !.seg = 1, !.sem = 0, !.wg = 0,
              !.go = [i \in Segs |-> "none"],
              !.results = [i \in Segs |-> FALSE], !.dfErr = ""]

\* processDownload: for _, file := range nzbFile.Files {
\*   if dlCtx.Err() != nil || IsPaused() { break }; err := downloadFile(...)
FileLoop ==
    /\ call.pc = "files"
    /\ SetCall(IF call.file > NumFiles \/ paused
               THEN [call EXCEPT !.pc = "after"]
               ELSE DfLocals(call))

\* downloadFile: for i, seg := range segments {
\*   if ctx.Err() != nil || IsPaused() { break }; wg.Add(1)
SegLoop ==
    /\ call.pc = "loop"
    /\ SetCall(IF call.seg > DfSegments \/ paused
               THEN [call EXCEPT !.pc = "wait"]
               ELSE [call EXCEPT !.pc = "sem", !.wg = call.wg + 1])

\* Mutant: the send does not block on a full channel.
SemSend_Unbounded ==
    /\ call.pc = "sem"
    /\ SetCall([call EXCEPT !.pc = "go", !.sem = call.sem + 1])

\* downloadFile: sem <- struct{}{} on a channel of capacity e.workers.
SemSend ==
    /\ call.pc = "sem"
    /\ call.sem < NumWorkers
    /\ SetCall([call EXCEPT !.pc = "go", !.sem = call.sem + 1])

\* downloadFile: go func(idx int, segment nzb.Segment) { ... }(i, seg)
GoStart ==
    /\ call.pc = "go"
    /\ SetCall([call EXCEPT !.pc = "loop", !.go[call.seg] = "run",
                            !.seg = call.seg + 1])

\* The goroutine's body: FetchSegment or DecodeYEnc fails and errOnce
\* records it, or results[idx] = decoded.Data.
GoBody(i) ==
    /\ call.go[i] = "run"
    /\ \/ SetCall([ErrOnce(call, "segment") EXCEPT !.go[i] = "defer"])
       \/ SetCall([ErrOnce(call, "yenc decode segment") EXCEPT !.go[i] = "defer"])
       \/ SetCall([call EXCEPT !.go[i] = "defer", !.results[i] = TRUE])

\* The goroutine's last deferred call but one: defer func() { <-sem }()
GoRelease(i) ==
    /\ call.go[i] = "defer"
    /\ SetCall([call EXCEPT !.go[i] = "released", !.sem = call.sem - 1])

\* The goroutine's last deferred call: defer wg.Done()
GoDone(i) ==
    /\ call.go[i] = "released"
    /\ SetCall([call EXCEPT !.go[i] = "done", !.wg = call.wg - 1])

\* Mutant: wg.Wait() returns at once.
Wait_NoWait ==
    /\ call.pc = "wait"
    /\ SetCall(IF call.dfErr # ""
               THEN [call EXCEPT !.pc = "after", !.pdErr = call.dfErr]
               ELSE [call EXCEPT !.pc = "assemble"])

\* downloadFile: wg.Wait(); if downloadErr != nil { return downloadErr }
Wait ==
    /\ call.pc = "wait"
    /\ call.wg = 0
    /\ SetCall(IF call.dfErr # ""
               THEN [call EXCEPT !.pc = "after", !.pdErr = call.dfErr]
               ELSE [call EXCEPT !.pc = "assemble"])

\* downloadFile: os.Create and the loop over results (a nil slot is the
\* error "missing segment"); back in processDownload an error leaves the
\* file loop.
Assemble ==
    /\ call.pc = "assemble"
    /\ \/ SetCall([call EXCEPT !.pc = "after", !.pdErr = "creating file"])
       \/ SetCall(IF \E i \in Segs : ~call.results[i]
                  THEN [call EXCEPT !.pc = "after", !.pdErr = "missing segment"]
                  ELSE [call EXCEPT !.pc = "files",
                                    !.assembled = call.assembled \cup {call.file},
                                    !.file = call.file + 1])

InitDispatch ==
    /\ pmIface = ""
    /\ LET r == AddPools(EngineServers, 1, [n \in Names |-> 0], <<>>) IN
       pmPools = r.m /\ pools = r.p
    /\ conns = <<>>
    /\ wk = [w \in Workers |-> IdleWorker]
    /\ ctxDone = FALSE
    /\ crashed = FALSE
    /\ nReconf = 0
    /\ plan = [j \in Jobs |-> << <<1>> >>]
    /\ InitEngineVars
    /\ InitVpnQuiet
    /\ remote = [n \in Names |-> "any"] /\ atDown = {} /\ wr = "none"
    /\ InitProg
    /\ InitCreated
    /\ InitApplied
    /\ InitMgr
    /\ call = [pc |-> "files", file |-> 1, seg |-> 0, sem |-> 0, wg |-> 0,
               go |-> [i \in Segs |-> "none"],
               results |-> [i \in Segs |-> FALSE],
               dfErr |-> "", pdErr |-> "", assembled |-> {}]

NextDispatch ==
    \/ FileLoop
    \/ SegLoop
    \/ SemSend
    \/ GoStart
    \/ \E i \in Segs : GoBody(i)
    \/ \E i \in Segs : GoRelease(i)
    \/ \E i \in Segs : GoDone(i)
    \/ Wait
    \/ Assemble
    \/ \E b \in BOOLEAN : SetPaused(b)

SpecDispatch == InitDispatch /\ [][NextDispatch]_vars


\* ------------------------------------------------- vpn.Monitor, check by
\* check.  checkInterface runs on the goroutine of Start (the initial check,
\* then the ticker) and on the goroutine of a SetInterface call; it reads
\* the interface outside the lock and swaps isUp under it.

\* checkInterface calls over the whole run.
MaxChecks == 4
Checkers == {"ticker", "SetInterface"}

\* checkInterface: if wasUp && !up { onDown() } else if !wasUp && up { onUp() }
Callback(wasUp, up) ==
    IF wasUp /\ ~up THEN "onDown" ELSE IF ~wasUp /\ up THEN "onUp" ELSE "idle"

Count(b) == IF b THEN 1 ELSE 0

\* checkInterface: name := m.interfaceName; iface, err :=
\* net.InterfaceByName(name); up := err == nil && iface.Flags&net.FlagUp != 0
CheckObserve(t) ==
    /\ call.th[t] = [pc |-> "idle", up |-> FALSE]
    /\ call.checks < MaxChecks
    /\ \E up \in BOOLEAN :
         SetCall([call EXCEPT
            !.th[t] = [pc |-> "swap", up |-> up],
            !.checks = @ + 1,
            !.obsUp = @ + Count(~call.lastObs /\ up),
            !.obsDown = @ + Count(call.lastObs /\ ~up),
            !.lastObs = up])

\* checkInterface: m.mu.Lock(); wasUp := m.isUp; m.isUp = up; m.mu.Unlock()
CheckSwap(t) ==
    /\ call.th[t].pc = "swap"
    /\ LET up == call.th[t].up IN
       SetCall([call EXCEPT
            !.th[t] = [pc |-> Callback(call.isUp, up), up |-> FALSE],
            !.isUp = up])

\* checkInterface: m.onDown() or m.onUp()
CheckInvoke(t) ==
    /\ call.th[t].pc \in {"onDown", "onUp"}
    /\ SetCall([call EXCEPT
            !.th[t] = [pc |-> "idle", up |-> FALSE],
            !.nUp = @ + Count(call.th[t].pc = "onUp"),
            !.nDown = @ + Count(call.th[t].pc = "onDown")])

\* NewMonitor: isUp is false, nothing was checked.
InitMonitor ==
    /\ pmIface = ""
    /\ LET r == AddPools(EngineServers, 1, [n \in Names |-> 0], <<>>) IN
       pmPools = r.m /\ pools = r.p
    /\ conns = <<>>
    /\ wk = [w \in Workers |-> IdleWorker]
    /\ ctxDone = FALSE
    /\ crashed = FALSE
    /\ nReconf = 0
    /\ plan = [j \in Jobs |-> << <<1>> >>]
    /\ InitEngineVars
    /\ InitVpnQuiet
    /\ remote = [n \in Names |-> "any"] /\ atDown = {} /\ wr = "none"
    /\ InitProg
    /\ InitCreated
    /\ InitApplied
    /\ InitMgr
    /\ call = [isUp |-> FALSE,
               th |-> [t \in Checkers |-> [pc |-> "idle", up |-> FALSE]],
               checks |-> 0, lastObs |-> FALSE,
               obsUp |-> 0, obsDown |-> 0,
               nUp |-> 0, nDown |-> 0]

NextMonitor ==
    \/ \E t \in Checkers : CheckObserve(t)
    \/ \E t \in Checkers : CheckSwap(t)
    \/ \E t \in Checkers : CheckInvoke(t)

SpecMonitor == InitMonitor /\ [][NextMonitor]_vars


\* ------------------------------------------------- wake specification
\* The driver of the engine with its channel wakeUp (capacity 1): downloads
\* are added and Notify is called by the API handlers and the OnUp callback
\* at any time; a download that was started finishes (processDownload is
\* one step here).

\* Engine.Notify: select { case e.wakeUp <- struct{}{}: default: }
Notify ==
    /\ SetCall(IF call.wakeUp < 1
               THEN [call EXCEPT !.wakeUp = call.wakeUp + 1]
               ELSE [call EXCEPT !.dropped = TRUE])

\* Mutant: the select has no timer case.
WakeSelect_NoTimer ==
    /\ eng.pc = "wait"
    /\ call.wakeUp > 0
    /\ call' = [call EXCEPT !.wakeUp = call.wakeUp - 1]
    /\ eng' = [eng EXCEPT !.pc = "check"]
    /\ UNCHANGED <<jobs, plan, paused, gr, activeJob, stopped, disk, pp, cn,
                   nCancels, segFailed>>
    /\ UNCHANGED <<poolVars, vpnVars>>
    /\ UNCHANGED <<remote, atDown, wr, prog, pw, createdAt, applied, mgr>>

\* processLoop: select { case <-e.ctx.Done(): return; case <-e.wakeUp:
\* case <-time.After(5 * time.Second): } with the engine not stopped.
WakeSelect ==
    /\ eng.pc = "wait"
    /\ \/ /\ call.wakeUp > 0
          /\ call' = [call EXCEPT !.wakeUp = call.wakeUp - 1]
       \/ UNCHANGED call
    /\ eng' = [eng EXCEPT !.pc = "check"]
    /\ UNCHANGED <<jobs, plan, paused, gr, activeJob, stopped, disk, pp, cn,
                   nCancels, segFailed>>
    /\ UNCHANGED <<poolVars, vpnVars>>
    /\ UNCHANGED <<remote, atDown, wr, prog, pw, createdAt, applied, mgr>>

\* processLoop: e.processDownload(dl), which returns with the download
\* failed or handed to post-processing.
ProcessDownload ==
    /\ eng.pc = "pd_reg"
    /\ \/ jobs' = SetError(jobs, eng.job, "download error")
       \/ jobs' = UpdateStatus(jobs, eng.job, "processing")
    /\ eng' = IdleEngine
    /\ UNCHANGED <<plan, paused, gr, activeJob, stopped, disk, pp, cn,
                   nCancels, segFailed>>
    /\ UNCHANGED <<poolVars, vpnVars>>
    /\ UNCHANGED auxVars

InitWake ==
    /\ pmIface = ""
    /\ LET r == AddPools(EngineServers, 1, [n \in Names |-> 0], <<>>) IN
       pmPools = r.m /\ pools = r.p
    /\ conns = <<>>
    /\ wk = [w \in Workers |-> IdleWorker]
    /\ ctxDone = FALSE
    /\ crashed = FALSE
    /\ nReconf = 0
    /\ plan = [j \in QJobs |-> << <<1>> >>]
    /\ jobs = <<>>
    /\ paused = FALSE
    /\ eng = IdleEngine
    /\ gr = [w \in Workers |-> 0]
    /\ activeJob = 0
    /\ stopped = FALSE
    /\ disk = [j \in QJobs |-> [f \in 1..Len(plan[j]) |-> NoFile]]
    /\ pp = [j \in QJobs |-> "none"]
    /\ cn = [pc |-> "idle", id |-> 0]
    /\ nCancels = 0
    /\ segFailed = {}
    /\ remote = [n \in Names |-> "any"] /\ atDown = {} /\ wr = "none"
    /\ InitProg
    /\ createdAt = [j \in QJobs |-> 0]
    /\ InitApplied
    /\ InitMgr
    /\ call = [wakeUp |-> 0, dropped |-> FALSE]
    /\ InitVpnQuiet

NextWake ==
    \/ \E id \in QJobs : Add(id)
    \/ Notify
    \/ WakeSelect
    \/ LoopCheckPaused
    \/ LoopGetNext
    \/ ProcessDownload
    \/ \E b \in BOOLEAN : SetPaused(b)

\* The processLoop goroutine runs whenever it can take a step (the timer of
\* its select fires after 5 s) and a download that was started finishes.
SpecWake ==
    /\ InitWake
    /\ [][NextWake]_vars
    /\ WF_vars(WakeSelect)
    /\ WF_vars(LoopCheckPaused)
    /\ WF_vars(LoopGetNext)
    /\ WF_vars(ProcessDownload)


\* ------------------------------------------------ NNTP Connect, reply by
\* reply.  The server answers what it likes; 0 stands for a reply that
\* readResponse cannot read (read error, short line, no number).
Replies == {0, 200, 201, 281, 381, 400, 481, 502}

\* Connect: if code != 200 && code != 201 { conn.Close(); return nil, ... }
WelcomeOk(code) == code = 200 \/ code = 201

\* Mutant: every reply but 281 is taken as "password required".
AfterUser_AnyIsMore(code) ==
    IF code = 281 THEN "done" ELSE "pass"

\* authenticate: if code == 281 { return nil }; if code != 381 { return
\* fmt.Errorf(...) }; sendCommand("AUTHINFO PASS ...")
AfterUser(code) ==
    IF code = 281 THEN "done" ELSE IF code # 381 THEN "err" ELSE "pass"

\* authenticate: if code != 281 { return fmt.Errorf(...) }; return nil
AfterPass(code) == IF code = 281 THEN "done" ELSE "err"

\* Connect: conn.Close(); return nil, fmt.Errorf(...)
ConnFail(c) == [c EXCEPT !.pc = "done", !.open = FALSE, !.out = "err"]

\* Connect: return nc, nil
ConnOk(c) == [c EXCEPT !.pc = "done", !.out = "conn"]

\* Connect: DialContext of the bound dialer, of tls.Dialer or of
\* net.Dialer; an error returns at once.  Only the bound dialer of an SSL
\* server leaves the TLS handshake to Connect.
ConnDial ==
    /\ call.pc = "dial"
    /\ \/ SetCall([call EXCEPT !.pc = "done", !.out = "err"])
       \/ SetCall([call EXCEPT !.open = TRUE,
                     !.pc = IF call.ssl /\ call.vpnInterface # ""
                            THEN "tls" ELSE "welcome"])

\* Connect: conn.(*tls.Conn).HandshakeContext(ctx); an error closes netConn.
ConnTLS ==
    /\ call.pc = "tls"
    /\ \/ SetCall(ConnFail(call))
       \/ SetCall([call EXCEPT !.pc = "welcome"])

\* Connect: code, _, err := nc.readResponse() and the tests that follow.
ConnWelcome ==
    /\ call.pc = "welcome"
    /\ \E code \in Replies :
         LET c == [call EXCEPT !.greet = code] IN
         SetCall(IF code = 0 \/ ~WelcomeOk(code) THEN ConnFail(c)
                 ELSE IF call.user THEN [c EXCEPT !.pc = "user"]
                 ELSE ConnOk(c))

\* authenticate: sendCommand("AUTHINFO USER " + Username), which may fail.
ConnUser ==
    /\ call.pc = "user"
    /\ \/ SetCall(ConnFail(call))
       \/ SetCall([call EXCEPT !.pc = "user_resp", !.sent = @ \cup {"USER"}])

\* authenticate: the reply to AUTHINFO USER.
ConnUserResp ==
    /\ call.pc = "user_resp"
    /\ \E code \in Replies :
         LET c == [call EXCEPT !.ur = code]
             a == AfterUser(code) IN
         SetCall(IF code = 0 \/ a = "err" THEN ConnFail(c)
                 ELSE IF a = "done" THEN ConnOk(c)
                 ELSE [c EXCEPT !.pc = "pass"])

\* authenticate: sendCommand("AUTHINFO PASS " + Password), which may fail.
ConnPass ==
    /\ call.pc = "pass"
    /\ \/ SetCall(ConnFail(call))
       \/ SetCall([call EXCEPT !.pc = "pass_resp", !.sent = @ \cup {"PASS"}])

\* authenticate: the reply to AUTHINFO PASS.
ConnPassResp ==
    /\ call.pc = "pass_resp"
    /\ \E code \in Replies :
         LET c == [call EXCEPT !.pr = code] IN
         SetCall(IF code = 0 \/ AfterPass(code) = "err" THEN ConnFail(c)
                 ELSE ConnOk(c))

\* Connect is called for a server with or without a username, with or
\* without SSL, with or without an interface to bind to.
InitConnect ==
    /\ pmIface = ""
    /\ LET r == AddPools(EngineServers, 1, [n \in Names |-> 0], <<>>) IN
       pmPools = r.m /\ pools = r.p
    /\ conns = <<>>
    /\ wk = [w \in Workers |-> IdleWorker]
    /\ ctxDone = FALSE
    /\ crashed = FALSE
    /\ nReconf = 0
    /\ plan = [j \in Jobs |-> << <<1>> >>]
    /\ InitEngineVars
    /\ InitVpnQuiet
    /\ remote = [n \in Names |-> "any"] /\ atDown = {} /\ wr = "none"
    /\ InitProg
    /\ InitCreated
    /\ InitApplied
    /\ InitMgr
    /\ \E user \in BOOLEAN, ssl \in BOOLEAN, iface \in Ifaces :
         call = [pc |-> "dial", user |-> user, ssl |-> ssl,
                 vpnInterface |-> iface, open |-> FALSE, greet |-> 0,
                 ur |-> 0, pr |-> 0, sent |-> {}, out |-> "none"]

NextConnect ==
    \/ ConnDial
    \/ ConnTLS
    \/ ConnWelcome
    \/ ConnUser
    \/ ConnUserResp
    \/ ConnPass
    \/ ConnPassResp

SpecConnect == InitConnect /\ [][NextConnect]_vars


\* --------------------------------------------- readMultiLine, line by
\* line.  What bufio.Reader.ReadBytes('\n') returns is a line: bytes without
\* LF followed by one LF; a body is a sequence of such lines.

\* Bytes of a line before its line ending.
MaxLineLen == 3
\* Lines of a body.
MaxBodyLines == 2

Dot == 46
LineBytes == {Dot, 120, 13}
LineEndings == {<<13, 10>>, <<10>>}
Terminator == <<Dot, 13, 10>>

Lines == {s \o e : s \in SeqsUpTo(LineBytes, MaxLineLen), e \in LineEndings}
Bodies == SeqsUpTo(Lines, MaxBodyLines)

RECURSIVE TrimRightCRLF(_)
\* strings.TrimRight(string(line), "\r\n")
TrimRightCRLF(line) ==
    IF line # <<>> /\ line[Len(line)] \in {13, 10}
    THEN TrimRightCRLF(Take(line, Len(line) - 1))
    ELSE line

\* Mutant: a line that begins with ".." is kept as it is.
Unstuff_Keep(line) == line

\* readMultiLine: if strings.HasPrefix(trimmed, "..") {
\*   line = append([]byte("."), line[2:]...) }
Unstuff(line) ==
    IF HasPrefix(TrimRightCRLF(line), <<Dot, Dot>>)
    THEN <<Dot>> \o Drop(line, 2)
    ELSE line

RECURSIVE readMultiLine(_, _)
\* readMultiLine on a connection that delivers lines and then fails (EOF,
\* read deadline).
readMultiLine(lines, buf) ==
    IF lines = <<>> THEN [err |-> "read", buf |-> <<>>]
    ELSE IF TrimRightCRLF(lines[1]) = <<Dot>> THEN [err |-> "", buf |-> buf]
    ELSE readMultiLine(Drop(lines, 1), buf \o Unstuff(lines[1]))

\* The server's side (RFC 3977, 3.1.1): a line that begins with "." is
\* sent with one more "." before it.
DotStuff(body) ==
    [i \in DOMAIN body |->
        IF HasPrefix(body[i], <<Dot>>) THEN <<Dot>> \o body[i] ELSE body[i]]

\* The server sends the body: dot-stuffed or as it is, with the terminator
\* or cut off before it.
Transmit(stuffed, whole) ==
    /\ call.pc = "body"
    /\ SetCall([call EXCEPT
          !.pc = "sent", !.stuffed = stuffed, !.whole = whole,
          !.wire = (IF stuffed THEN DotStuff(call.body) ELSE call.body) \o
                   (IF whole THEN <<Terminator>> ELSE <<>>)])

\* FetchBody: return nc.readMultiLine()
ReadBody ==
    /\ call.pc = "sent"
    /\ SetCall([call EXCEPT !.pc = "read", !.out = readMultiLine(call.wire, <<>>)])

InitBody ==
    /\ pmIface = ""
    /\ LET r == AddPools(EngineServers, 1, [n \in Names |-> 0], <<>>) IN
       pmPools = r.m /\ pools = r.p
    /\ conns = <<>>
    /\ wk = [w \in Workers |-> IdleWorker]
    /\ ctxDone = FALSE
    /\ crashed = FALSE
    /\ nReconf = 0
    /\ plan = [j \in Jobs |-> << <<1>> >>]
    /\ InitEngineVars
    /\ InitVpnQuiet
    /\ remote = [n \in Names |-> "any"] /\ atDown = {} /\ wr = "none"
    /\ InitProg
    /\ InitCreated
    /\ InitApplied
    /\ InitMgr
    /\ \E body \in Bodies :
         call = [pc |-> "body", body |-> body, stuffed |-> FALSE,
                 whole |-> FALSE, wire |-> <<>>,
                 out |-> [err |-> "", buf |-> <<>>]]

NextBody ==
    \/ \E stuffed \in BOOLEAN, whole \in BOOLEAN : Transmit(stuffed, whole)
    \/ ReadBody

SpecBody == InitBody /\ [][NextBody]_vars


\* ------------------------------------------------ waiters specification
\* Segment goroutines share one pool of capacity 1 whose server may serve,
\* answer 430, refuse or break a connection; no writer of the pool manager
\* runs.  The context may be cancelled but need not be.
NextWaiters ==
    \/ \E w \in Workers : FetchSegmentCall(w)
    \/ \E w \in Workers : FetchStep(w)
    \/ \E w \in Workers : FetchSegmentReturn(w)
    \/ CancelCtx

\* The Go scheduler runs every goroutine that can take a step; a dial and
\* a BODY request end by their deadlines.  A send on p.conns goes to a
\* goroutine that waits to receive, when there is one (the channel's
\* receive queue is served before its buffer), so a waiter is not overtaken
\* for ever by callers that arrive later.
SpecWaiters ==
    /\ InitLock
    /\ [][NextWaiters]_vars
    /\ \A w \in Workers : WF_vars(FetchStep(w))
    /\ \A w \in Workers : SF_vars(PoolGetWait(w))
    /\ \A w \in Workers : WF_vars(FetchSegmentReturn(w))


\* ------------------------------------------- termination specification
\* One step of the processLoop goroutine, from its select to the return of
\* processDownload.
EngineStep ==
    \/ LoopSelect
    \/ LoopCheckPaused
    \/ LoopGetNext
    \/ PdRegister
    \/ PdStatusDownloading
    \/ PdPrepare
    \/ PdFileLoop
    \/ DfLoop
    \/ DfDispatch
    \/ DfAssemble
    \/ PdAfter
    \/ PdStatusProcessing
    \/ PdOnComplete

\* The engine of SpecEngine under the Go scheduler: the processLoop
\* goroutine and every segment goroutine run whenever they can take a step,
\* a dial and a BODY request end by their deadlines, and a send on p.conns
\* goes to a goroutine that waits to receive.  A CancelDownload that was
\* called runs to its end; pause, cancel and Stop are the user's and need
\* never happen.
SpecTerminate ==
    /\ InitEngine
    /\ [][NextEngine]_vars
    /\ WF_vars(EngineStep)
    /\ WF_vars(CancelCancel)
    /\ \A g \in Workers : WF_vars(FetchStep(g) \/ SegFinish(g))
    /\ \A g \in Workers : SF_vars(PoolGetWait(g))

\* ------------------------------------------------------------ properties

\* C1: the active count of every pool stays within 0 .. capacity, where the
\* capacity is the server's connection count, 10 when that is <= 0 and 50
\* when it is > 50.
C1_ActiveWithinCapacity ==
    \A pid \in DOMAIN pools :
      LET n   == pools[pid].server.Connections
          cap == IF n <= 0 THEN 10 ELSE IF n > 50 THEN 50 ELSE n
      IN  pools[pid].active >= 0 /\ pools[pid].active <= cap

\* A pool at its capacity with a caller of Get blocked on it.
C1_Witness ==
    \E w \in Workers :
      /\ wk[w].pc = "get_wait"
      /\ ~pools[wk[w].pool].closed
      /\ pools[wk[w].pool].active = pools[wk[w].pool].server.Connections

Leased == {w \in Workers : wk[w].pc = "fetch"}

\* C2: a connection is held by at most one caller: no two callers hold the
\* same connection, and a held connection is not in any idle channel (so no
\* further Get can return it before its Put or Discard).
C2_LeaseExclusive ==
    /\ \A w1, w2 \in Leased : w1 # w2 => wk[w1].conn # wk[w2].conn
    /\ \A w \in Leased : \A pid \in DOMAIN pools :
         \A k \in DOMAIN pools[pid].conns : pools[pid].conns[k] # wk[w].conn
    /\ \A pid \in DOMAIN pools : \A k1, k2 \in DOMAIN pools[pid].conns :
         k1 # k2 => pools[pid].conns[k1] # pools[pid].conns[k2]

\* Two callers hold connections of the same pool at once, one of them a
\* connection that was returned before and handed out again.
C2_Witness ==
    \E w1, w2 \in Leased :
      /\ w1 # w2 /\ wk[w1].pool = wk[w2].pool
      /\ wk[w1].how = "idle"

\* C5: every connection is dialed with the interface that the latest
\* SetVPNInterface (initially NewPoolManager) set: bound to it when it is
\* non-empty, unbound when it is empty.
C5_DialUsesCurrentInterface ==
    \A c \in DOMAIN conns :
      conns[c] # DeadConn => conns[c].iface = conns[c].policy

\* A connection dialed on the old interface is still leased while a
\* connection of a pool created after SetVPNInterface("wg0") is dialed.
C5_Witness ==
    /\ pmIface = "wg0"
    /\ \E c1, c2 \in DOMAIN conns :
         /\ conns[c1] # DeadConn /\ conns[c1].iface = ""
         /\ conns[c2] # DeadConn /\ conns[c2].iface = "wg0"

\* A segment goroutine is started in this step (its first call is
\* FetchSegment).
Dispatched(g) == gr[g] = 0 /\ gr'[g] # 0

\* A new NNTP connection is dialed in this step.
Dialed(g) == wk[g].pc = "dial" /\ wk'[g].pc = "fetch"

\* C3: while the paused flag is true no new segment fetch is dispatched and
\* no new connection is dialed.
C3_NoFetchNoDialWhilePaused ==
    [][paused => \A g \in Workers : ~Dispatched(g) /\ ~Dialed(g)]_vars

Cancelled(j) == jobs[j] = [status |-> "failed", err |-> "cancelled by user"]

\* C6: once CancelDownload has marked a job failed with "cancelled by user",
\* no later step of the engine changes that job's status or error.
C6_CancelIsFinal ==
    [][\A j \in Jobs : (Cancelled(j) /\ eng' # eng) => jobs'[j] = jobs[j]]_vars

Terminal == {"completed", "failed"}

\* C7: a status of completed or failed never changes again.
C7_TerminalAbsorbing ==
    [][\A j \in Jobs : jobs[j].status \in Terminal
                          => jobs'[j].status = jobs[j].status]_vars

\* Every file of the job's plan has been assembled by downloadFile.
FullSuccess(j) == \A f \in DOMAIN disk[j] : disk[j][f].state = "assembled"

\* C8: a job is in status processing, or has been handed to the
\* post-processor, only if every file of its plan was assembled.
C8_ProcessingOnlyOnFullSuccess ==
    \A j \in Jobs :
      (jobs[j].status = "processing" \/ pp[j] # "none") => FullSuccess(j)

\* C9: an assembled file holds every planned segment exactly once, in
\* strictly increasing segment-number order.
C9_StrictOrderEachOnce ==
    \A j \in Jobs : \A f \in DOMAIN disk[j] :
      disk[j][f].state = "assembled" =>
        LET d    == disk[j][f].data
            file == plan[j][f] IN
        /\ Len(d) = Len(file)
        /\ {d[i] : i \in 1..Len(d)} = 1..Len(file)
        /\ \A i \in 1..Len(d) : \A k \in 1..Len(d) :
             i < k => file[d[i]] < file[d[k]]

\* C10: a job of which a segment fetch or decode failed is never in status
\* processing or completed, is never handed to the post-processor, and once
\* processDownload has returned it is failed with a non-empty error.
C10_NoPartialSuccess ==
    \A j \in segFailed :
      /\ jobs[j].status \in {"downloading", "failed"}
      /\ pp[j] = "none"
      /\ eng.job # j => (jobs[j].status = "failed" /\ jobs[j].err # "")

\* A job ended after one of its files was assembled and a segment of a
\* later file failed.
C10_Witness ==
    \E j \in segFailed :
      /\ eng.job # j
      /\ \E f \in DOMAIN disk[j] : disk[j][f].state = "assembled"
      /\ jobs[j].status = "failed"

\* main has finished its start-up and no VPN callback is running.
Settled == mainPc = "serve" /\ \A t \in Threads : cb[t] = "none"

\* C4: when the coordinator has settled and the VPN is not up, the paused
\* flag is true.
C4_PausedWhileVpnDown == (Settled /\ ~MgrIsUp) => paused

\* C11: with A always failing and B serving the article, a FetchSegment call
\* whose context is not cancelled returns the bytes served by B.
C11_RetryReachesOtherServer ==
    \A w \in Workers :
      (wk[w].pc = "ret" /\ ~ctxDone) => (wk[w].res = "ok" /\ wk[w].from = "B")

\* The number of times connection c is in the idle channel of pool pid.
InChannel(ps, pid, c) ==
    Cardinality({k \in DOMAIN ps[pid].conns : ps[pid].conns[k] = c})

\* Goroutines that hold a counted connection of pool pid, or are dialing one.
Holders(pid) == {w \in Workers : wk[w].pool = pid /\ wk[w].pc \in {"dial", "fetch"}}

\* Every counted connection of an open pool is idle in the channel or in the
\* hands of exactly one FetchSegment call; outside GetConnection .. Put or
\* Discard a call has no connection.
C12_Conservation ==
    /\ \A pid \in DOMAIN pools :
         ~pools[pid].closed =>
           pools[pid].active = Len(pools[pid].conns) + Cardinality(Holders(pid))
    /\ \A w \in Workers :
         /\ wk[w].pc \in {"idle", "attempt", "ret"} => wk[w].conn = 0 /\ wk[w].pool = 0
         /\ wk[w].pc = "fetch" => wk[w].conn # 0 /\ ~conns[wk[w].conn].closed

\* What one step of the goroutine that holds connection c of pool pid did.
PutEffect(w, pid, c) ==
    /\ wk'[w].pc = "ret" /\ wk'[w].res = "ok"
    /\ \/ /\ InChannel(pools', pid, c) = 1 /\ InChannel(pools, pid, c) = 0
          /\ ~conns'[c].closed
          /\ pools'[pid].active = pools[pid].active
       \/ /\ Len(pools[pid].conns) >= pools[pid].maxConns
          /\ conns'[c].closed
          /\ pools'[pid].conns = pools[pid].conns
          /\ pools'[pid].active = pools[pid].active - 1

DiscardEffect(w, pid, c) ==
    /\ wk'[w].res # "ok"
    /\ conns'[c].closed
    /\ pools'[pid].conns = pools[pid].conns
    /\ pools'[pid].active = pools[pid].active - 1

\* C12: an attempt that obtained a connection ends with exactly one Put of it
\* after a successful FetchBody or exactly one Discard of it after a failed
\* one, and FetchSegment returns without a connection.
C12_PutOrDiscardOnce ==
    /\ []C12_Conservation
    /\ [][\A w \in Workers :
            (wk[w].pc = "fetch" /\ wk'[w] # wk[w]) =>
              /\ wk'[w].conn = 0 /\ wk'[w].pool = 0
              /\ \/ PutEffect(w, wk[w].pool, wk[w].conn)
                 \/ DiscardEffect(w, wk[w].pool, wk[w].conn)
              /\ ~(PutEffect(w, wk[w].pool, wk[w].conn)
                     /\ DiscardEffect(w, wk[w].pool, wk[w].conn))]_vars

\* One call has returned data after a Put into the channel, and a connection
\* of another attempt has been Discarded.
C12_Witness ==
    /\ \E w \in Workers : wk[w].pc = "ret" /\ wk[w].res = "ok"
    /\ \E pid \in DOMAIN pools : pools[pid].conns # <<>>
    /\ \E c \in DOMAIN conns : conns[c] = DeadConn

\* A goroutine waits in the backoff select between two attempts.
InBackoff(w) == wk[w].pc = "attempt" /\ wk[w].attempt > 0

\* How a FetchSegment call may reach its return statement.
ReturnsRight(w) ==
    \/ /\ wk'[w].res = "ok"
       /\ wk[w].pc = "fetch"
    \/ /\ wk'[w].res = "err" /\ wk'[w].lastErr = "ctx"
       /\ InBackoff(w) /\ ctxDone
    \/ /\ wk'[w].res = "err" /\ wk[w].attempt = MaxAttempts - 1
       /\ \/ wk[w].pc = "fetch" /\ wk'[w].lastErr = "fetchbody"
          \/ wk[w].pc = "getconn" /\ wk'[w].lastErr = "noconn"

C14_NoPanic == ~crashed

\* C15: a segment fetch that was in flight when OnDown ran (SetPaused(true),
\* CloseAll) does not return data.
C15_InFlightFetchesFail ==
    \A w \in atDown : ~(wk[w].pc = "ret" /\ wk[w].res = "ok")

\* C16: a writer of the manager that is waiting for the write lock gets it
\* and returns, also while workers wait in ConnectionPool.Get on an
\* exhausted pool under the read lock.
C16_WriterGetsLock == (wr # "none") ~> (wr = "none" \/ crashed)

\* The VPN callbacks have quiesced: main serves, no callback is running, the
\* reconnect loop is not running, and the monitor has seen the interface as
\* it is now.
Quiesced ==
    /\ Settled /\ rec.pc = "off" /\ ~crashed
    /\ mon.exists /\ mon.isUp = ifUp

Repickable(js, j) == js[j].status \in {"queued", "downloading"}

\* C18: when downloadFile stopped dispatching because the VPN went down
\* (segments are missing, none failed, nothing was cancelled), processDownload
\* leaves the job in a persisted state from which it is picked again.
C18_InterruptedJobRepickable ==
    [][(eng.pc = "after" /\ eng.pdErr = "missing segment" /\ ~ctxDone
          /\ eng'.pc # "after")
         => \A j \in Jobs : j = eng.job => Repickable(jobs', j)]_vars

\* CancelDownload(j) has run to its end on the download in progress: the
\* message is persisted and the download's context is cancelled (not by
\* Engine.Stop); the file loop of processDownload has been left with the
\* error of a segment that was aborted or never started.
CancelledRunning(j) ==
    /\ Cancelled(j) /\ ctxDone /\ ~stopped
    /\ activeJob = j /\ eng.pc = "after"
    /\ eng.pdErr \in {"segment", "missing segment"}

\* C19: when a download in progress has been cancelled, the end of
\* processDownload leaves failed / "cancelled by user" as it is.
C19_CancelledByUserPersists ==
    [][\A j \in Jobs : CancelledRunning(j) => Cancelled(j)']_vars

\* C20: the values written by UpdateProgress never go down.
C20_ProgressMonotonic ==
    [][/\ prog'.doneSegments >= prog.doneSegments
       /\ prog'.downloadedBytes >= prog.downloadedBytes]_vars

\* The rows with status queued.
Queued == {j \in DOMAIN jobs : jobs[j].status = "queued"}

\* The engine has selected a job and is starting it.
Starting == eng.pc \in {"pd_reg", "pd_status"}

\* C21: the job the engine starts has the earliest created_at of all queued
\* jobs, and only the job inside processDownload has status downloading.
C21_FifoOneAtATime ==
    /\ Starting => \A k \in Queued : createdAt[eng.job] <= createdAt[k]
    /\ \A j \in DOMAIN jobs : jobs[j].status = "downloading" => eng.job = j

\* A job is being started while a job inserted later, with a lower id, waits.
C21_Witness ==
    /\ Starting
    /\ \E k \in Queued : createdAt[eng.job] < createdAt[k] /\ k < eng.job

\* The idle connections of pool pid.
IdleConns(ps, pid) == {ps[pid].conns[k] : k \in DOMAIN ps[pid].conns}

\* What UpdateServers(servers) did to the pool of name n.
Reconciled(servers, n) ==
    LET pid == pmPools[n] IN
    IF pid = 0 THEN TRUE
    ELSE IF n \in EnabledNames(servers)
    THEN \* kept: the same pool, open, with the same idle connections
         /\ pmPools'[n] = pid
         /\ pools'[pid] = pools[pid]
         /\ \A c \in IdleConns(pools, pid) : conns'[c] = conns[c]
    ELSE \* removed: closed, and its idle connections with it (the address
         \* of a closed pool nobody holds may already be that of a new pool)
         /\ pmPools'[n] = 0
         /\ pools'[pid].closed \/ pools'[pid].server.Name # n
         /\ \A c \in IdleConns(pools, pid) : conns'[c].closed

\* After UpdateServers(applied.servers): the pools of the map and the leases
\* of the fetches begun since.
PoolsAsApplied ==
    LET on == EnabledNames(applied.servers) IN
    /\ \A n \in Names : pmPools[n] # 0 <=> n \in on
    /\ \A n \in on : /\ ~pools[pmPools[n]].closed
                     /\ pools[pmPools[n]].server.Name = n
                     /\ \A m \in on : pmPools[m] = pmPools[n] => m = n
    /\ \A w \in applied.since :
         wk[w].pc \in {"dial", "fetch"} =>
           /\ pools[wk[w].pool].server.Name \in on
           /\ pmPools[pools[wk[w].pool].server.Name] = wk[w].pool

Settles(servers, mp, ps, cs) ==
    Reconcile(servers, mp, ps, cs) = [m |-> mp, p |-> ps, c |-> cs]

\* C23: UpdateServers is idempotent: from the state a call UpdateServers(L)
\* leaves, a second UpdateServers(L) changes neither the map nor any pool nor
\* any connection (it closes nothing, creates nothing, drops nothing).
C23_UpdateServersIdempotent ==
    [][\A servers \in ApiLists :
         ApiUpdateServers(servers) => Settles(servers, pmPools', pools', conns')]_vars

\* A call has just removed a pool that a fetch still holds a connection of,
\* and kept a pool with an idle connection; a second call changes nothing.
C23_Witness ==
    /\ applied.valid /\ applied.since = {}
    /\ \E n \in Names : pmPools[n] # 0 /\ pools[pmPools[n]].conns # <<>>
    /\ \E w \in Workers : wk[w].pc = "fetch" /\ pools[wk[w].pool].closed
    /\ Settles(applied.servers, pmPools, pools, conns)

\* The call of conn.Disconnect in Manager.Stop has been made.
DisconnectBegun == mgr.stop \in {"disconnecting", "done"}

\* The reconnect worker is between its backoff and the return of Connect.
WorkerActive ==
    mgr.loop.pc \in {"waiting", "stale", "connect", "connecting", "install"}

\* C24: once Manager.Stop has called Disconnect, no conn.Connect is running
\* and none is started later: the reconnect worker has exited, or was started
\* after the wait and leaves at its first select without connecting.
C24_NoConnectAfterStop == DisconnectBegun => ~WorkerActive

\* Stop has disconnected, and an OnDown callback that was running has started
\* a reconnect worker only afterwards.
C24_Witness == DisconnectBegun /\ mgr.loop.pc = "arm" /\ mgr.wg = 1

\* The =yend line carries the payload's CRC as crc32 and no other pcrc32.
WellFormed == call.crc = "correct" /\ call.pcrc \in {"absent", "correct"}

\* C25: decoding the yEnc encoding of a payload, wrapped in =ybegin and =yend
\* with the correct crc32, succeeds and yields the payload.
C25_RoundTrip ==
    (call.pc = "decoded" /\ WellFormed) =>
        (call.out.err = "" /\ call.out.Data = call.payload)

\* A payload holding three of the bytes whose encoding is escaped has been
\* decoded from a single-part article.
C25_Witness ==
    /\ call.pc = "decoded" /\ WellFormed /\ call.form = "single"
    /\ Len(call.payload) = MaxLen
    /\ \A b \in {214, 224, 227} : \E i \in DOMAIN call.payload : call.payload[i] = b
    /\ call.out.Data = call.payload

\* DecodeYEnc returned an integrity error.
IntegrityError == call.out.err \in {"part CRC32 mismatch", "CRC32 mismatch"}

\* The trailer value an article must match: pcrc32 when present, else crc32
\* of an article without =ypart line.
Expected ==
    IF call.pcrc # "absent" THEN <<TRUE, TrailerValue(call.pcrc, call.payload)>>
    ELSE IF call.form = "single" /\ call.crc # "absent"
    THEN <<TRUE, TrailerValue(call.crc, call.payload)>>
    ELSE <<FALSE, <<0, 0>>>>

\* C26: with a pcrc32 field, or else with a crc32 field and no =ypart line,
\* DecodeYEnc succeeds only if the CRC32 of the decoded payload is the
\* field's value, and returns an integrity error otherwise.
C26_IntegrityChecked ==
    (call.pc = "decoded" /\ Expected[1]) =>
        \/ ChecksumIEEE(decodeYEncData(<<yencEncode(call.payload)>>)) = Expected[2]
        \/ IntegrityError

\* The document decodes, has a file, every file has a segment and every
\* segment a message-id that is not empty.
ValidPlan(doc) ==
    /\ doc.decodes
    /\ Len(doc.Files) >= 1
    /\ \A i \in DOMAIN doc.Files :
         /\ Len(doc.Files[i]) >= 1
         /\ \A j \in DOMAIN doc.Files[i] : doc.Files[i][j] # ""

InDownloadFile == eng.pc \in {"df_loop", "df_sem", "df_wait"}

\* C28: once a segment worker has recorded an error, the dispatch loop of
\* downloadFile starts no further segment (its next loop check leaves the
\* loop), and the recorded error is never overwritten by a later one.
C28_FirstErrorStopsDispatch ==
    [][ /\ (DfLoop /\ eng.dfErr # "") => eng'.pc = "df_wait"
        /\ (InDownloadFile /\ eng.dfErr # "" /\ eng'.pc # "after")
               => eng'.dfErr = eng.dfErr ]_vars

\* The segment goroutines that hold a slot of sem.
Running == {i \in Segs : call.go[i] \in {"run", "defer"}}

\* C29: at no time do more than NumWorkers segment goroutines hold a slot
\* (from the send on sem to the deferred receive), and a segment's send on
\* sem goes through only when fewer than NumWorkers goroutines hold one.
C29_BoundedParallelism ==
    /\ [](Cardinality(Running) <= call.sem /\ call.sem <= NumWorkers)
    /\ [][SemSend => Cardinality(Running) < NumWorkers]_vars

\* Every slot is held and the loop of downloadFile, with a further segment
\* to start, is blocked in its send on sem.
C29_Witness ==
    /\ call.pc = "sem" /\ call.seg = NumWorkers + 1
    /\ Cardinality(Running) = NumWorkers
    /\ ~ENABLED SemSend

\* The segment goroutines of the current file that were started and have
\* not yet called wg.Done().
Unfinished == {i \in Segs : call.go[i] \in {"run", "defer", "released"}}

\* C30: a segment goroutine is unfinished only while downloadFile is in its
\* dispatch loop or in wg.Wait(), so the results are read, and the file
\* loop goes on, only after every goroutine of the file has finished; and
\* whenever a goroutine of a file exists every earlier file is assembled.
C30_JoinBarrier ==
    /\ Unfinished # {} => call.pc \in {"loop", "sem", "go", "wait"}
    /\ (\E i \in Segs : call.go[i] # "none") =>
           \A f \in 1..(call.file - 1) : f \in call.assembled

\* The last file is being assembled: all its goroutines have finished and
\* every earlier file is assembled.
C30_Witness ==
    /\ call.pc = "assemble" /\ call.file = NumFiles
    /\ \A i \in Segs : call.go[i] = "done"
    /\ call.assembled = 1..(NumFiles - 1)

\* processDownload has left its file loop before the last file was done,
\* without a failed segment and with the job's context not cancelled: the
\* loop of processDownload or of downloadFile saw the paused flag.
PausedBreak ==
    /\ eng.pc \in {"after", "pd_proc"}
    /\ eng.file <= Len(plan[eng.job])
    /\ eng.pdErr \in {"", "missing segment"}
    /\ ~CtxErr
    /\ eng.job \notin segFailed

\* C31: when the engine has stopped dispatching because it saw the paused
\* flag and no segment has failed, its next steps leave the job's status
\* and error message as they are (neither processing nor failed is
\* written).
C31_PauseKeepsStatus ==
    [][(PausedBreak /\ (PdAfter \/ PdStatusProcessing)) => jobs' = jobs]_vars

\* The goroutine is blocked in the second select of ConnectionPool.Get: its
\* pool is at the limit and has no idle connection.
BlockedInGet(w) ==
    /\ wk[w].pc = "get_wait"
    /\ pools[wk[w].pool].conns = <<>>

\* The pool has an idle connection or may dial a new one.
Available(pid) ==
    /\ ~pools[pid].closed
    /\ pools[pid].conns # <<>> \/ pools[pid].active < pools[pid].maxConns

\* C32: no FetchSegment is blocked waiting for a connection of one pool
\* while another pool of the manager has an idle connection or room to dial.
C32_NoWaitWhileAvailable ==
    \A w \in Workers :
        BlockedInGet(w) =>
            \A n \in PresentNames : pmPools[n] = wk[w].pool \/ ~Available(pmPools[n])

\* No checkInterface call is in progress.
ChecksDone == \A t \in Checkers : call.th[t].pc = "idle"

\* C33: once the checks are done, OnUp was called once for every
\* down-to-up change and OnDown once for every up-to-down change of the
\* sequence of observed interface states (starting from down), in the order
\* of observation.
C33_OncePerObservedChange ==
    ChecksDone => call.nUp = call.obsUp /\ call.nDown = call.obsDown

\* The download is in the table and waits to be started.
Waiting(j) == j \in DOMAIN jobs /\ jobs[j].status = "queued"

\* C34: Notify can always be called and returns at once, at most one wake
\* is pending, and a download that waits in the queue is eventually started
\* unless the queue is paused in the meantime, with or without a wake.
C34_WakesCoalesceNoneLost ==
    /\ [](call.wakeUp <= 1 /\ ENABLED Notify)
    /\ \A j \in QJobs : Waiting(j) ~> (~Waiting(j) \/ paused)

\* The newest download is being started while a wake is pending and a
\* Notify call has found the channel full.
C34_Witness ==
    /\ eng.pc = "pd_reg" /\ eng.job = NumQueued
    /\ \A j \in QJobs : j \in DOMAIN jobs /\ createdAt[j] = j
    /\ call.wakeUp = 1 /\ call.dropped

\* The greeting was 200 or 201 and, for a server with a username, AUTHINFO
\* USER was answered 281, or 381 and then AUTHINFO PASS 281.
Handshake ==
    /\ call.greet \in {200, 201}
    /\ \/ ~call.user
       \/ call.ur = 281
       \/ call.ur = 381 /\ call.pr = 281

\* C35: Connect returns a connection exactly when the handshake was
\* completed, with the socket open; in every other case it returns an error
\* and no socket is left open; AUTHINFO PASS is sent only after a 381.
C35_Handshake ==
    /\ call.pc = "done" =>
         /\ call.out = "conn" <=> Handshake
         /\ call.out = "conn" => call.open
         /\ call.out # "conn" => call.out = "err" /\ ~call.open
    /\ "PASS" \in call.sent => call.ur = 381

\* Connect has returned a connection after 201, 381 and 281.
C35_Witness ==
    /\ call.pc = "done" /\ call.out = "conn" /\ call.user
    /\ call.greet = 201 /\ call.ur = 381 /\ call.pr = 281
    /\ call.sent = {"USER", "PASS"}

RECURSIVE Concat(_)
\* The lines one after the other.
Concat(lines) ==
    IF lines = <<>> THEN <<>> ELSE lines[1] \o Concat(Drop(lines, 1))

\* The line without its first byte where it begins with "..".
OneDotRemoved(line) ==
    IF Len(line) >= 2 /\ line[1] = Dot /\ line[2] = Dot THEN Drop(line, 1)
    ELSE line

\* The lines received before the first line that is "." up to its line
\* ending; all of them when there is no such line.
BeforeTerminator(lines) ==
    LET ends == {i \in DOMAIN lines : TrimRightCRLF(lines[i]) = <<Dot>>} IN
    IF ends = {} THEN lines
    ELSE Take(lines, (CHOOSE i \in ends : \A j \in ends : i <= j) - 1)

\* C36: readMultiLine returns the lines received before the first line
\* that is only ".", each without one leading dot where it begins with
\* ".." and unchanged otherwise; reading the dot-stuffed transmission of a
\* body followed by the terminator yields exactly the body.
C36_BodyFraming ==
    call.pc = "read" =>
        /\ call.out.err = "" <=>
             \E i \in DOMAIN call.wire : TrimRightCRLF(call.wire[i]) = <<Dot>>
        /\ call.out.err = "" =>
             call.out.buf =
               Concat([i \in DOMAIN BeforeTerminator(call.wire) |->
                          OneDotRemoved(BeforeTerminator(call.wire)[i])])
        /\ (call.stuffed /\ call.whole) =>
             call.out.err = "" /\ call.out.buf = Concat(call.body)

\* A body of lines that begin with dots (".", then "..x") was sent
\* dot-stuffed and read back.
C36_Witness ==
    /\ call.pc = "read" /\ call.stuffed /\ call.whole
    /\ call.body = << <<Dot, 13, 10>>, <<Dot, Dot, 120, 13, 10>> >>
    /\ call.out.buf = <<Dot, 13, 10, Dot, Dot, 120, 13, 10>>

\* Two segments of the file carry the same number.
HasTies(file) ==
    \E i \in DOMAIN file : \E k \in DOMAIN file : i # k /\ file[i] = file[k]

\* The segments of the file downloadFile is working on, as SortedSegments
\* returned them: every position of the stored list exactly once, the
\* numbers ascending (strictly where no two are equal).
SortedCopy ==
    InDownloadFile =>
        LET file == plan[eng.job][eng.file] IN
        /\ Len(eng.order) = Len(file)
        /\ {eng.order[i] : i \in DOMAIN eng.order} = DOMAIN file
        /\ \A i \in DOMAIN eng.order : \A k \in DOMAIN eng.order :
             i < k => file[eng.order[i]] <= file[eng.order[k]]

\* C37: SortedSegments returns a new sequence, a permutation of the file's
\* segments in ascending number order, and leaves the stored list as it
\* was; a file in which two segments have the same number is a fatal error
\* of the plan, so it is never downloaded and assembled.
C37_SortedCopyTiesFatal ==
    /\ SortedCopy
    /\ \A j \in Jobs : \A f \in DOMAIN plan[j] :
         HasTies(plan[j][f]) => disk[j][f].state # "assembled"

\* The goroutine waits in the second select of Get while its pool has room
\* for a new connection.
WaitsBelowCapacity(w) ==
    /\ wk[w].pc = "get_wait"
    /\ pools[wk[w].pool].active < pools[wk[w].pool].maxConns

\* C38: a caller that waits in Get because the pool was at its limit
\* returns from Get once the active count is below the limit, also when
\* the leased connections were discarded and none was put back as idle.
C38_NoLostWakeup ==
    \A w \in Workers : WaitsBelowCapacity(w) ~> (wk[w].pc # "get_wait")

\* C39: every job processDownload has started is returned from: its segment
\* goroutines finish, wg.Wait returns and processDownload returns, also
\* when the server fails persistently and the pool is smaller than the
\* number of segment goroutines.
C39_JobTerminates ==
    \A j \in Jobs : (activeJob = j) ~> (activeJob # j)

\* The enabled entries of the list.
EnabledServers(servers) ==
    {servers[i] : i \in {j \in DOMAIN servers : servers[j].Enabled}}

\* C40: after UpdateServers(L) every pool of the manager has the settings
\* of the enabled server of L it stands for, also when the entry was edited
\* since the pool was created, and a fetch begun afterwards dials with no
\* settings but those of an enabled entry of L.
C40_PoolsUseCurrentSettings ==
    applied.valid =>
        /\ \A s \in EnabledServers(applied.servers) :
             /\ pmPools[s.Name] # 0
             /\ pools[pmPools[s.Name]].server = s
             /\ pools[pmPools[s.Name]].maxConns =
                  NewConnectionPool(s, pmIface).maxConns
        /\ \A w \in applied.since :
             wk[w].pc = "dial" =>
               pools[wk[w].pool].server \in EnabledServers(applied.servers)

====
